---- MODULE Spec2Model ----
(***************************************************************************)
(* Folder sharing, permission cascade and folder deletion of the SWS todo  *)
(* application: the Supabase tables (todo_folders, todos) with their row   *)
(* level security policies and the foreign key todos.folder_id, and the    *)
(* React hooks useFolders / useTodos / useBulkActions / useDragAndDrop of  *)
(* two browser sessions working against them.                              *)
(*                                                                         *)
(* Every backend request is asynchronous: a handler runs up to its await   *)
(* (one action), the backend executes the statement (one action), and the  *)
(* handler continues with the response (one action).                       *)
(***************************************************************************)
EXTENDS Integers, Sequences, FiniteSets, TLC

VARIABLES
    dbFolders,      \* table todo_folders: a set of rows
    dbTodos,        \* table todos: a set of rows
    folders,        \* useFolders state of each session: a sequence of rows
    todos,          \* useTodos state of each session: a sequence of rows
    selectedTodos,  \* useBulkActions selection of each session: a set of ids
    todoOrder,      \* useTodoOrder map of each session: scope key -> ids
    ops,            \* the handler in flight in each session
    fetchF,         \* fetchFolders of each session's mount effect
    fetchT,         \* fetchTodos of each session's mount effect
    loading,        \* useTodos loading flag of each session; "unmounted" before the mount
    feed,           \* realtime channels of each session: joined or not, events not yet handled
    issued,         \* ids handed out by gen_random_uuid so far
    calls,          \* number of handler invocations so far
    dbPrefs,        \* table todo_user_preferences: each user's preferences document
    saver,          \* useTodoOrder of each session: the debounced saveTodoOrder and its requests
    editing,        \* TodoList editingTodo of each session: the todo the edit dialog holds
    writes,         \* toggleTodo calls of each session awaiting their response
    faulted,        \* a backend request has failed (network or server error)
    settled         \* the handler that has just settled, with its outcome

vars == <<dbFolders, dbTodos, folders, todos, selectedTodos, todoOrder,
          ops, fetchF, fetchT, loading, feed, issued, calls, dbPrefs, saver,
          editing, writes, faulted, settled>>

db == <<dbFolders, dbTodos>>
local == <<folders, todos, selectedTodos, todoOrder>>
mount == <<fetchF, fetchT, loading>>
fetch == <<fetchF, fetchT, loading, feed>>
prefs == <<dbPrefs, saver>>
edits == <<editing, writes>>

----------------------------------------------------------------------------
\* Bounds of the model

\* Handler invocations in one behaviour
MaxCalls == 4

\* Handler invocations of a behaviour of TodoSpec
MaxTodoCalls == 2

\* The debounce delay of saveTodoOrder, in clock ticks
DebounceDelay == 2

\* Drops of a behaviour of SaveSpec
MaxDrops == 2

Users == {"u1", "u2", "u3"}
Sessions == {"s1", "s2"}
FolderIdSeq == <<"f1">>
TodoIdSeq == <<"t1", "t2">>
Titles == {"b"}
Permissions == {"view", "edit", "manage"}

\* folder_id = null (the root level)
Null == "null"

\* Keys of the order map: a folder id, or 'root'
ScopeKeys == {FolderIdSeq[i] : i \in DOMAIN FolderIdSeq} \cup {"root"}

\* The signed-in user of a session (useAuth)
SessionUser(s) == IF s = "s1" THEN "u1" ELSE "u2"

----------------------------------------------------------------------------
\* Arrays

Contains(seq, x) == \E i \in DOMAIN seq : seq[i] = x

ToSet(seq) == {seq[i] : i \in DOMAIN seq}

\* A variant of Dedup that keeps every occurrence (a plain array where the
\* code builds a Set); C7 must not survive it
DedupKeepsAll(seq) == seq

\* Array.from(new Set(seq)): the first occurrence of each element, in order
RECURSIVE Dedup(_)
Dedup(seq) ==
    IF seq = <<>> THEN <<>>
    ELSE LET front == Dedup(SubSeq(seq, 1, Len(seq) - 1))
             x == seq[Len(seq)]
         IN IF Contains(front, x) THEN front ELSE Append(front, x)

\* A set of rows as an array, in id order (the order of a query result)
RECURSIVE RowsInOrder(_, _)
RowsInOrder(rows, idSeq) ==
    IF idSeq = <<>> THEN <<>>
    ELSE LET here == {r \in rows : r.id = Head(idSeq)}
         IN (IF here = {} THEN <<>> ELSE <<CHOOSE r \in here : TRUE>>)
            \o RowsInOrder(rows, Tail(idSeq))

\* allRows.filter((row, index, self) => index === self.findIndex(r => r.id === row.id))
UniqueById(seq) ==
    LET idx == {i \in DOMAIN seq : \A j \in 1..(i - 1) : seq[j].id # seq[i].id}
        RECURSIVE Pick(_)
        Pick(i) == IF i > Len(seq) THEN <<>>
                   ELSE (IF i \in idx THEN <<seq[i]>> ELSE <<>>) \o Pick(i + 1)
    IN Pick(1)

----------------------------------------------------------------------------
\* Row level security and the foreign key of the migration

\* SELECT on todo_folders: "Users can manage their own folders",
\* "Shared users can view folders"
FolderSelectable(u, f) == u = f.user_id \/ Contains(f.shared_with, u)

\* UPDATE on todo_folders: "Users can manage their own folders",
\* "Users with edit permission can update folders"; the statement filters on
\* a column, so the row must be selectable too
FolderUpdatable(u, f) ==
    FolderSelectable(u, f) /\ (u = f.user_id \/ Contains(f.can_edit, u))

\* DELETE on todo_folders: "Users can manage their own folders" only
FolderDeletable(u, f) == u = f.user_id

\* SELECT on todos: "Users can manage their own todos",
\* "Users can view todos in shared folders"
TodoSelectable(u, t, fs) ==
    \/ u = t.user_id
    \/ Contains(t.shared_with, u)
    \/ \E f \in fs : f.id = t.folder_id /\ Contains(f.shared_with, u)

\* UPDATE on todos: "Users can manage their own todos",
\* "Users can edit todos in shared folders" (its sub-select on todo_folders
\* sees only the folders the user may select)
TodoUpdatable(u, t, fs) ==
    /\ TodoSelectable(u, t, fs)
    /\ \/ u = t.user_id
       \/ Contains(t.can_edit, u)
       \/ \E f \in fs : /\ f.id = t.folder_id
                        /\ FolderSelectable(u, f)
                        /\ Contains(f.can_edit, u)

\* INSERT on todos: "Users can manage their own todos" only
TodoInsertable(u, t) == u = t.user_id

\* A variant of ForeignKeyOk for a table without the REFERENCES clause; C5
\* must not survive it
ForeignKeyUnchecked(t, fs) == TRUE

\* folder_id uuid REFERENCES todo_folders: a todo row names no folder or an
\* existing one
ForeignKeyOk(t, fs) == t.folder_id = Null \/ \E f \in fs : f.id = t.folder_id

\* The same constraint seen from the folder: a row that a todo references
\* cannot be deleted (no ON DELETE action is declared)
StillReferenced(f, ts) == \E t \in ts : t.folder_id = f.id

----------------------------------------------------------------------------
\* State after construction: the migration has created empty tables; the
\* first session has opened the page on them (its fetches found nothing),
\* the second session has not opened it yet.

Idle == [name |-> "idle"]

\* A preferences document without keys: the column default '{}', and what a
\* user without a row reads
NoPrefs == [k \in {} |-> <<>>]

\* useTodoOrder before any saveTodoOrder call: no timer pending, no upsert
\* issued
IdleSaver ==
    [timer |-> -1, args |-> NoPrefs, elapsed |-> 0, inflight |-> <<>>, sent |-> 0,
     load |-> "done"]
NoRow == [id |-> "none"]
Quiet == [name |-> "none"]

Init ==
    /\ dbFolders = {}
    /\ dbTodos = {}
    /\ folders = [s \in Sessions |-> <<>>]
    /\ todos = [s \in Sessions |-> <<>>]
    /\ selectedTodos = [s \in Sessions |-> {}]
    /\ todoOrder = [s \in Sessions |-> [k \in ScopeKeys |-> <<>>]]
    /\ ops = [s \in Sessions |-> Idle]
    /\ fetchF = [s \in Sessions |-> [pc |-> "idle"]]
    /\ fetchT = [s \in Sessions |-> [pc |-> "idle"]]
    /\ loading = [s \in Sessions |-> IF s = "s1" THEN "false" ELSE "unmounted"]
    /\ feed = [s \in Sessions |-> [joined |-> FALSE, queue |-> <<>>]]
    /\ issued = [folder |-> 0, todo |-> 0]
    /\ calls = 0
    /\ dbPrefs = [u \in Users |-> NoPrefs]
    /\ saver = [s \in Sessions |-> IdleSaver]
    /\ editing = [s \in Sessions |-> NoRow]
    /\ writes = [s \in Sessions |-> <<>>]
    /\ faulted = FALSE
    /\ settled = Quiet

\* A handler can be invoked: TodoList renders its controls once loading is
\* false, and the session has no handler in flight
CanCall(s) == loading[s] = "false" /\ ops[s].name = "idle" /\ calls < MaxCalls

\* The dialog that awaited the handler: await onShare(...); onClose() runs
\* onClose only when the awaited promise did not reject
DialogCloses(thrown) == ~thrown

\* The handler of session s settles with the given outcome
Settle(s, ok, toast, thrown) ==
    /\ settled' = [name |-> ops[s].name, sess |-> s, op |-> ops[s],
                   ok |-> ok, toast |-> toast, thrown |-> thrown,
                   closed |-> DialogCloses(thrown)]
    /\ ops' = [ops EXCEPT ![s] = Idle]

\* The backend answers the request in flight of session s: the statement
\* takes effect (Effect) unless a constraint rejects it (rejected) or the
\* request fails on its way (a network or server error)
\* postgres_changes: the events of one statement on a table, in id order. An
\* inserted or changed row is published with the new row, a deleted row with
\* its id only.
RECURSIVE RowEvents(_, _, _, _)
RowEvents(table, before, after, idSeq) ==
    IF idSeq = <<>> THEN <<>>
    ELSE LET b == {r \in before : r.id = Head(idSeq)}
             a == {r \in after : r.id = Head(idSeq)}
             here == IF a # {} /\ a # b
                     THEN <<[table |-> table,
                             eventType |-> IF b = {} THEN "INSERT" ELSE "UPDATE",
                             new |-> CHOOSE r \in a : TRUE, old |-> Head(idSeq)]>>
                     ELSE IF a = {} /\ b # {}
                     THEN <<[table |-> table, eventType |-> "DELETE",
                             new |-> NoRow, old |-> Head(idSeq)]>>
                     ELSE <<>>
         IN here \o RowEvents(table, before, after, Tail(idSeq))

\* An event reaches the user when the policies let the user select the new
\* row; a DELETE event carries no row to test and reaches every subscriber
EventVisible(u, e, fs) ==
    \/ e.eventType = "DELETE"
    \/ e.table = "todos" /\ TodoSelectable(u, e.new, fs)
    \/ e.table = "todo_folders" /\ FolderSelectable(u, e.new)

\* The events of the statement just executed are queued for every session
\* whose channels are joined (the channels are opened by the mount effects)
Publish ==
    LET events == RowEvents("todo_folders", dbFolders, dbFolders', FolderIdSeq)
                     \o RowEvents("todos", dbTodos, dbTodos', TodoIdSeq)
    IN IF \A r \in Sessions : ~feed[r].joined
       THEN UNCHANGED feed
       ELSE feed' = [r \in Sessions |->
                  IF feed[r].joined /\ loading[r] # "unmounted"
                  THEN LET Seen(e) == EventVisible(SessionUser(r), e, dbFolders')
                       IN [feed[r] EXCEPT !.queue = @ \o SelectSeq(events, Seen)]
                  ELSE feed[r]]

AnswerWith(s, pcAfter, rejected, Effect, opAfter) ==
    \/ /\ ~rejected
       /\ Effect
       /\ Publish
       /\ ops' = [ops EXCEPT ![s] = [opAfter EXCEPT !.pc = pcAfter, !.error = FALSE]]
       /\ UNCHANGED faulted
    \/ /\ rejected \/ ~faulted
       /\ faulted' = (faulted \/ ~rejected)
       /\ ops' = [ops EXCEPT ![s].pc = pcAfter, ![s].error = TRUE]
       /\ UNCHANGED <<db, feed>>

Answer(s, pcAfter, rejected, Effect) == AnswerWith(s, pcAfter, rejected, Effect, ops[s])

\* A read answers with an error or not
ReadFails(error) ==
    /\ error => ~faulted
    /\ faulted' = (faulted \/ error)

----------------------------------------------------------------------------
\* The mount effects of useFolders and useTodos

\* The page is opened: both effects run, fetchFolders() and fetchTodos() are
\* started (the realtime subscriptions are not part of this specification)
Mount(s) ==
    /\ loading[s] = "unmounted"
    /\ loading' = [loading EXCEPT ![s] = "true"]
    /\ fetchF' = [fetchF EXCEPT ![s] = [pc |-> "owned"]]
    /\ fetchT' = [fetchT EXCEPT ![s] = [pc |-> "owned"]]
    /\ settled' = Quiet
    /\ UNCHANGED <<db, local, ops, feed, issued, calls, faulted, prefs, edits>>

\* select('*').eq('user_id', user.id) answers; on an error the fetch ends
FetchFoldersOwned(s) ==
    /\ fetchF[s].pc = "owned"
    /\ \E error \in BOOLEAN :
         /\ ReadFails(error)
         /\ fetchF' = [fetchF EXCEPT ![s] =
              IF error THEN [pc |-> "idle"]
              ELSE [pc |-> "shared",
                    owned |-> RowsInOrder({f \in dbFolders : f.user_id = SessionUser(s)},
                                          FolderIdSeq)]]
    /\ settled' = Quiet
    /\ UNCHANGED <<db, local, ops, fetchT, loading, feed, issued, calls, prefs, edits>>

\* select('*').contains('shared_with', [user.id]) answers; the two results
\* are combined, de-duplicated by id and replace the collection
FetchFoldersShared(s) ==
    /\ fetchF[s].pc = "shared"
    /\ \E error \in BOOLEAN :
         /\ ReadFails(error)
         /\ fetchF' = [fetchF EXCEPT ![s] = [pc |-> "idle"]]
         /\ folders' = IF error THEN folders
               ELSE [folders EXCEPT ![s] = UniqueById(fetchF[s].owned \o
                        RowsInOrder({f \in dbFolders :
                                        /\ FolderSelectable(SessionUser(s), f)
                                        /\ Contains(f.shared_with, SessionUser(s))},
                                    FolderIdSeq))]
    /\ settled' = Quiet
    /\ UNCHANGED <<db, todos, selectedTodos, todoOrder, ops, fetchT, loading,
                   feed, issued, calls, prefs, edits>>

\* fetchTodos: select('*').eq('user_id', user.id) answers
FetchTodosOwned(s) ==
    /\ fetchT[s].pc = "owned"
    /\ \E error \in BOOLEAN :
         /\ ReadFails(error)
         /\ fetchT' = [fetchT EXCEPT ![s] =
              IF error THEN [pc |-> "idle"]
              ELSE [pc |-> "shared",
                    owned |-> RowsInOrder({t \in dbTodos : t.user_id = SessionUser(s)},
                                          TodoIdSeq)]]
    /\ settled' = Quiet
    /\ UNCHANGED <<db, local, ops, fetchF, loading, feed, issued, calls, prefs, edits>>

\* fetchTodos: select('*').contains('shared_with', [user.id]) answers; only
\* the success path reaches setTodos and setLoading(false)
FetchTodosShared(s) ==
    /\ fetchT[s].pc = "shared"
    /\ \E error \in BOOLEAN :
         /\ ReadFails(error)
         /\ fetchT' = [fetchT EXCEPT ![s] = [pc |-> "idle"]]
         /\ IF error
            THEN UNCHANGED <<todos, loading>>
            ELSE /\ todos' = [todos EXCEPT ![s] = UniqueById(fetchT[s].owned \o
                        RowsInOrder({t \in dbTodos :
                                        /\ TodoSelectable(SessionUser(s), t, dbFolders)
                                        /\ Contains(t.shared_with, SessionUser(s))},
                                    TodoIdSeq))]
                 /\ loading' = [loading EXCEPT ![s] = "false"]
    /\ settled' = Quiet
    /\ UNCHANGED <<db, folders, selectedTodos, todoOrder, ops, fetchF, feed, issued, calls, prefs, edits>>

----------------------------------------------------------------------------
\* useFolders.createFolder

\* The id the backend will give the row (gen_random_uuid) is fixed here
CreateFolderCall(s) ==
    /\ CanCall(s)
    /\ issued.folder < Len(FolderIdSeq)
    /\ calls' = calls + 1
    /\ issued' = [issued EXCEPT !.folder = @ + 1]
    /\ ops' = [ops EXCEPT ![s] =
                 [name |-> "createFolder", pc |-> "insert", error |-> FALSE,
                  data |-> [id |-> FolderIdSeq[issued.folder + 1],
                            user_id |-> SessionUser(s),
                            shared_with |-> <<>>, can_edit |-> <<>>]]]
    /\ settled' = Quiet
    /\ UNCHANGED <<db, local, fetch, faulted, prefs, edits>>

\* insert({ ...folderData, user_id: user.id }).select(): the sharing arrays
\* take the column default
CreateFolderExec(s) ==
    /\ ops[s].name = "createFolder" /\ ops[s].pc = "insert"
    /\ Answer(s, "inserted", FALSE,
              /\ dbFolders' = dbFolders \cup {ops[s].data}
              /\ UNCHANGED dbTodos)
    /\ settled' = Quiet
    /\ UNCHANGED <<local, mount, issued, calls, prefs, edits>>

\* if (error) throw error; setFolders(current => [...current, data[0]])
CreateFolderDone(s) ==
    /\ ops[s].name = "createFolder" /\ ops[s].pc = "inserted"
    /\ IF ops[s].error
       THEN /\ Settle(s, FALSE, "Failed to create folder", FALSE)
            /\ UNCHANGED folders
       ELSE /\ Settle(s, TRUE, "Folder created successfully!", FALSE)
            /\ folders' = [folders EXCEPT ![s] = Append(@, ops[s].data)]
    /\ UNCHANGED <<db, todos, selectedTodos, todoOrder, fetch, issued, calls, faulted, prefs, edits>>

----------------------------------------------------------------------------
\* useFolders.shareFolder

\* const updates = { shared_with: ..., can_edit?: ... }: can_edit stays
\* undefined for the view permission (hasCanEdit = FALSE)
ShareUpdates(folder, userId, permission) ==
    [shared_with |-> Dedup(Append(folder.shared_with, userId)),
     hasCanEdit |-> permission \in {"edit", "manage"},
     can_edit |-> IF permission \in {"edit", "manage"}
                  THEN Dedup(Append(folder.can_edit, userId))
                  ELSE <<>>]

\* The row after update(updates): an undefined key is not sent
ApplyShareUpdates(row, updates) ==
    [row EXCEPT !.shared_with = updates.shared_with,
                !.can_edit = IF updates.hasCanEdit THEN updates.can_edit ELSE @]

\* The share dialog submits the folder object it was opened with, a user
\* other than the current one and a permission level
ShareFolderCall(s, folder, userId, permission) ==
    /\ CanCall(s)
    /\ Contains(folders[s], folder)
    /\ userId # SessionUser(s)
    /\ calls' = calls + 1
    /\ ops' = [ops EXCEPT ![s] =
                 [name |-> "shareFolder", pc |-> "folderUpdate", error |-> FALSE,
                  folder |-> folder, userId |-> userId, permission |-> permission,
                  updates |-> ShareUpdates(folder, userId, permission)]]
    /\ settled' = Quiet
    /\ UNCHANGED <<db, local, fetch, issued, faulted, prefs, edits>>

\* from('todo_folders').update(updates).eq('id', folder.id)
ShareFolderExecFolder(s) ==
    /\ ops[s].name = "shareFolder" /\ ops[s].pc = "folderUpdate"
    /\ LET u == SessionUser(s)
           hit == {f \in dbFolders : f.id = ops[s].folder.id /\ FolderUpdatable(u, f)}
           new == {ApplyShareUpdates(f, ops[s].updates) : f \in hit}
       IN Answer(s, "folderUpdated", \E f \in new : ~FolderUpdatable(u, f),
                 /\ dbFolders' = (dbFolders \ hit) \cup new
                 /\ UNCHANGED dbTodos)
    /\ settled' = Quiet
    /\ UNCHANGED <<local, mount, issued, calls, prefs, edits>>

\* if (error) throw error; otherwise the todo update is issued
ShareFolderAfterFolder(s) ==
    /\ ops[s].name = "shareFolder" /\ ops[s].pc = "folderUpdated"
    /\ IF ops[s].error
       THEN Settle(s, FALSE, "Failed to share folder", TRUE)
       ELSE /\ ops' = [ops EXCEPT ![s].pc = "todosUpdate"]
            /\ settled' = Quiet
    /\ UNCHANGED <<db, local, fetch, issued, calls, faulted, prefs, edits>>

\* from('todos').update({ shared_with, can_edit }).eq('folder_id', folder.id)
ShareFolderExecTodos(s) ==
    /\ ops[s].name = "shareFolder" /\ ops[s].pc = "todosUpdate"
    /\ LET u == SessionUser(s)
           hit == {t \in dbTodos : /\ t.folder_id = ops[s].folder.id
                                   /\ TodoUpdatable(u, t, dbFolders)}
           new == {ApplyShareUpdates(t, ops[s].updates) : t \in hit}
       IN Answer(s, "todosUpdated", \E t \in new : ~TodoUpdatable(u, t, dbFolders),
                 /\ dbTodos' = (dbTodos \ hit) \cup new
                 /\ UNCHANGED dbFolders)
    /\ settled' = Quiet
    /\ UNCHANGED <<local, mount, issued, calls, prefs, edits>>

\* setFolders(current => current.map(f => f.id === folder.id ? {...} : f))
ShareLocal(current, op) ==
    [i \in DOMAIN current |->
        IF current[i].id = op.folder.id
        THEN [current[i] EXCEPT
                !.shared_with = Dedup(Append(@, op.userId)),
                !.can_edit = IF op.permission \in {"edit", "manage"}
                             THEN Dedup(Append(@, op.userId)) ELSE @]
        ELSE current[i]]

\* A variant of ShareFolderDone whose catch block applies the local update
\* before it shows the toast and re-throws; C8 must not survive it
ShareFolderDoneAppliesAnyway(s) ==
    /\ ops[s].name = "shareFolder" /\ ops[s].pc = "todosUpdated"
    /\ IF ops[s].error
       THEN Settle(s, FALSE, "Failed to share folder", TRUE)
       ELSE Settle(s, TRUE, "Folder shared successfully!", FALSE)
    /\ folders' = [folders EXCEPT ![s] = ShareLocal(@, ops[s])]
    /\ UNCHANGED <<db, todos, selectedTodos, todoOrder, fetch, issued, calls, faulted, prefs, edits>>

\* if (todosError) throw todosError; otherwise local state and the toast
ShareFolderDone(s) ==
    /\ ops[s].name = "shareFolder" /\ ops[s].pc = "todosUpdated"
    /\ IF ops[s].error
       THEN /\ Settle(s, FALSE, "Failed to share folder", TRUE)
            /\ UNCHANGED folders
       ELSE /\ Settle(s, TRUE, "Folder shared successfully!", FALSE)
            /\ folders' = [folders EXCEPT ![s] = ShareLocal(@, ops[s])]
    /\ UNCHANGED <<db, todos, selectedTodos, todoOrder, fetch, issued, calls, faulted, prefs, edits>>

----------------------------------------------------------------------------
\* useFolders.deleteFolder

DeleteFolderCall(s, folder) ==
    /\ CanCall(s)
    /\ Contains(folders[s], folder)
    /\ calls' = calls + 1
    /\ ops' = [ops EXCEPT ![s] =
                 [name |-> "deleteFolder", pc |-> "detach", error |-> FALSE,
                  folder |-> folder, detached |-> {}]]
    /\ settled' = Quiet
    /\ UNCHANGED <<db, local, fetch, issued, faulted, prefs, edits>>

\* A variant of DetachRow that also empties the sharing arrays; C6 must not
\* survive it
DetachRowClearsSharing(t) ==
    [t EXCEPT !.folder_id = Null, !.shared_with = <<>>, !.can_edit = <<>>]

\* The row after update({ folder_id: null })
DetachRow(t) == [t EXCEPT !.folder_id = Null]

\* from('todos').update({ folder_id: null }).eq('folder_id', folder.id); the
\* ids of the rows it changed are kept in the field detached
DeleteFolderExecDetach(s) ==
    /\ ops[s].name = "deleteFolder" /\ ops[s].pc = "detach"
    /\ LET u == SessionUser(s)
           hit == {t \in dbTodos : /\ t.folder_id = ops[s].folder.id
                                   /\ TodoUpdatable(u, t, dbFolders)}
           new == {DetachRow(t) : t \in hit}
       IN AnswerWith(s, "detached", \E t \in new : ~TodoUpdatable(u, t, dbFolders),
                     /\ dbTodos' = (dbTodos \ hit) \cup new
                     /\ UNCHANGED dbFolders,
                     [ops[s] EXCEPT !.detached = {t.id : t \in hit}])
    /\ settled' = Quiet
    /\ UNCHANGED <<local, mount, issued, calls, prefs, edits>>

\* A variant of DeleteFolderAfterDetach without the check of updateError: the
\* folder delete is issued whatever the clearing write answered; C4 must not
\* survive it
DeleteFolderAfterDetachUnchecked(s) ==
    /\ ops[s].name = "deleteFolder" /\ ops[s].pc = "detached"
    /\ ops' = [ops EXCEPT ![s].pc = "delete"]
    /\ settled' = Quiet
    /\ UNCHANGED <<db, local, fetch, issued, calls, faulted, prefs, edits>>

\* if (updateError) throw updateError; otherwise the folder delete is issued
DeleteFolderAfterDetach(s) ==
    /\ ops[s].name = "deleteFolder" /\ ops[s].pc = "detached"
    /\ IF ops[s].error
       THEN Settle(s, FALSE, "Failed to delete folder", FALSE)
       ELSE /\ ops' = [ops EXCEPT ![s].pc = "delete"]
            /\ settled' = Quiet
    /\ UNCHANGED <<db, local, fetch, issued, calls, faulted, prefs, edits>>

\* from('todo_folders').delete().eq('id', folder.id): rows the policies hide
\* are skipped silently; a row still referenced by a todo makes it fail
DeleteFolderExecDelete(s) ==
    /\ ops[s].name = "deleteFolder" /\ ops[s].pc = "delete"
    /\ LET u == SessionUser(s)
           hit == {f \in dbFolders : f.id = ops[s].folder.id /\ FolderDeletable(u, f)}
       IN Answer(s, "deleted",
                 \E f \in hit : StillReferenced(f, dbTodos),
                 /\ dbFolders' = dbFolders \ hit
                 /\ UNCHANGED dbTodos)
    /\ settled' = Quiet
    /\ UNCHANGED <<local, mount, issued, calls, prefs, edits>>

\* current.filter(row => row.id !== id)
RemoveById(current, id) ==
    LET Keep(r) == r.id # id IN SelectSeq(current, Keep)

\* if (deleteError) throw deleteError; otherwise local removal and the toast
DeleteFolderDone(s) ==
    /\ ops[s].name = "deleteFolder" /\ ops[s].pc = "deleted"
    /\ IF ops[s].error
       THEN /\ Settle(s, FALSE, "Failed to delete folder", FALSE)
            /\ UNCHANGED folders
       ELSE /\ Settle(s, TRUE, "Folder deleted successfully!", FALSE)
            /\ folders' = [folders EXCEPT ![s] = RemoveById(@, ops[s].folder.id)]
    /\ UNCHANGED <<db, todos, selectedTodos, todoOrder, fetch, issued, calls, faulted, prefs, edits>>

----------------------------------------------------------------------------
\* useTodos.addTodo

\* The form submits a title and the folder chosen among the listed folders;
\* the id the backend will give the row is fixed here
AddTodoCall(s, folderId) ==
    /\ CanCall(s)
    /\ folderId = Null \/ \E i \in DOMAIN folders[s] : folders[s][i].id = folderId
    /\ issued.todo < Len(TodoIdSeq)
    /\ calls' = calls + 1
    /\ issued' = [issued EXCEPT !.todo = @ + 1]
    /\ ops' = [ops EXCEPT ![s] =
                 [name |-> "addTodo", pc |-> IF folderId = Null THEN "insert" ELSE "read",
                  error |-> FALSE, id |-> TodoIdSeq[issued.todo + 1],
                  folder_id |-> folderId, sharedWith |-> <<>>, canEdit |-> <<>>,
                  readRow |-> NoRow, data |-> NoRow]]
    /\ settled' = Quiet
    /\ UNCHANGED <<db, local, fetch, faulted, prefs, edits>>

\* select('shared_with, can_edit').eq('id', folder_id).single(): the error is
\* not looked at; without a row the arrays stay empty. The insert is issued.
AddTodoReadFolder(s) ==
    /\ ops[s].name = "addTodo" /\ ops[s].pc = "read"
    /\ LET hit == {f \in dbFolders : /\ f.id = ops[s].folder_id
                                     /\ FolderSelectable(SessionUser(s), f)}
       IN \E error \in BOOLEAN :
            /\ ReadFails(error)
            /\ IF error \/ hit = {}
               THEN ops' = [ops EXCEPT ![s].pc = "insert"]
               ELSE \E f \in hit :
                      ops' = [ops EXCEPT ![s].pc = "insert", ![s].readRow = f,
                                         ![s].sharedWith = f.shared_with,
                                         ![s].canEdit = f.can_edit]
    /\ settled' = Quiet
    /\ UNCHANGED <<db, local, fetch, issued, calls, prefs, edits>>

\* A variant of NewTodo that leaves the sharing arrays to the column
\* default; C9 must not survive it
NewTodoUnshared(s, op) ==
    [id |-> op.id, user_id |-> SessionUser(s), folder_id |-> op.folder_id,
     title |-> "a", is_complete |-> FALSE,
     shared_with |-> <<>>, can_edit |-> <<>>]

\* The row of insert({ ...todoData, user_id, shared_with, can_edit })
NewTodo(s, op) ==
    [id |-> op.id, user_id |-> SessionUser(s), folder_id |-> op.folder_id,
     title |-> "a", is_complete |-> FALSE,
     shared_with |-> op.sharedWith, can_edit |-> op.canEdit]

\* from('todos').insert(...).select()
AddTodoExecInsert(s) ==
    /\ ops[s].name = "addTodo" /\ ops[s].pc = "insert"
    /\ LET row == NewTodo(s, ops[s])
       IN Answer(s, "inserted",
                 ~TodoInsertable(SessionUser(s), row) \/ ~ForeignKeyOk(row, dbFolders),
                 /\ dbTodos' = dbTodos \cup {row}
                 /\ UNCHANGED dbFolders)
    /\ settled' = Quiet
    /\ UNCHANGED <<local, mount, issued, calls, prefs, edits>>

\* if (error) throw error; setTodos(current => [...current, data[0]])
AddTodoDone(s) ==
    /\ ops[s].name = "addTodo" /\ ops[s].pc = "inserted"
    /\ IF ops[s].error
       THEN /\ Settle(s, FALSE, "Failed to add todo", FALSE)
            /\ UNCHANGED todos
       ELSE /\ Settle(s, TRUE, "Todo added successfully!", FALSE)
            /\ todos' = [todos EXCEPT ![s] = Append(@, NewTodo(s, ops[s]))]
    /\ UNCHANGED <<db, folders, selectedTodos, todoOrder, fetch, issued, calls, faulted, prefs, edits>>

----------------------------------------------------------------------------
\* Moving todos between folders: updateTodo, handleBulkMove, handleDrop

\* The statement update(fields) on the todos with the given ids, as the
\* backend executes it for user u: the rows after it, or a rejection when a
\* new row breaks the foreign key or the policies
MoveHit(u, ids) == {t \in dbTodos : t.id \in ids /\ TodoUpdatable(u, t, dbFolders)}

MoveRejected(u, new) ==
    \E t \in new : ~ForeignKeyOk(t, dbFolders) \/ ~TodoUpdatable(u, t, dbFolders)

\* current.map(t => t.id === todo.id ? todo : t)
ReplaceById(current, todo) ==
    [i \in DOMAIN current |-> IF current[i].id = todo.id THEN todo ELSE current[i]]

\* updateTodo(todo) with the object the edit dialog built: the optimistic
\* replacement of the entry, then the update is issued
UpdateTodoStart(s, todo, title, folderId) ==
    /\ CanCall(s)
    /\ folderId = Null \/ \E i \in DOMAIN folders[s] : folders[s][i].id = folderId
    /\ calls' = calls + 1
    /\ LET edited == [todo EXCEPT !.title = title, !.folder_id = folderId]
       IN /\ todos' = [todos EXCEPT ![s] = ReplaceById(@, edited)]
          /\ ops' = [ops EXCEPT ![s] =
                       [name |-> "updateTodo", pc |-> "update", error |-> FALSE,
                        todo |-> edited, todosAtCall |-> todos[s]]]
    /\ settled' = Quiet
    /\ UNCHANGED <<db, folders, selectedTodos, todoOrder, fetch, issued, faulted, prefs, edits>>

\* The edit dialog saves { ...todo, title, folder_id } for a listed todo
UpdateTodoCall(s, todo, title, folderId) ==
    /\ Contains(todos[s], todo)
    /\ UpdateTodoStart(s, todo, title, folderId)

\* from('todos').update({ title, description, folder_id }).eq('id', todo.id)
UpdateTodoExec(s) ==
    /\ ops[s].name = "updateTodo" /\ ops[s].pc = "update"
    /\ LET u == SessionUser(s)
           hit == MoveHit(u, {ops[s].todo.id})
           new == {[t EXCEPT !.title = ops[s].todo.title,
                             !.folder_id = ops[s].todo.folder_id] : t \in hit}
       IN Answer(s, "updated", MoveRejected(u, new),
                 /\ dbTodos' = (dbTodos \ hit) \cup new
                 /\ UNCHANGED dbFolders)
    /\ settled' = Quiet
    /\ UNCHANGED <<local, mount, issued, calls, prefs, edits>>

\* The rollback: current.map(t => t.id === todo.id ? { ...t, folder_id: t.folder_id } : t)
UpdateTodoRollback(current, todo) ==
    [i \in DOMAIN current |->
        IF current[i].id = todo.id
        THEN [current[i] EXCEPT !.folder_id = current[i].folder_id]
        ELSE current[i]]

\* The handler settles; the dialog that awaited it closes (await onSave(...); onClose())
UpdateTodoDone(s) ==
    /\ ops[s].name = "updateTodo" /\ ops[s].pc = "updated"
    /\ IF ops[s].error
       THEN /\ Settle(s, FALSE, "Failed to update todo", FALSE)
            /\ todos' = [todos EXCEPT ![s] = UpdateTodoRollback(@, ops[s].todo)]
       ELSE /\ Settle(s, TRUE, "Todo updated successfully!", FALSE)
            /\ UNCHANGED todos
    /\ editing' = [editing EXCEPT ![s] = NoRow]
    /\ UNCHANGED <<db, folders, selectedTodos, todoOrder, fetch, issued, calls, faulted, prefs,
                   writes>>

\* current.map(todo => selectedTodos.has(todo.id) ? { ...todo, folder_id } : todo)
BulkSetFolder(current, selected, folderId) ==
    [i \in DOMAIN current |->
        IF current[i].id \in selected
        THEN [current[i] EXCEPT !.folder_id = folderId]
        ELSE current[i]]

\* The todos ticked in the list (onSelect) and the folder picked in the bar
BulkMoveCall(s, selected, folderId) ==
    /\ CanCall(s)
    /\ selected # {}
    /\ selected \subseteq {todos[s][i].id : i \in DOMAIN todos[s]}
    /\ folderId = Null \/ \E i \in DOMAIN folders[s] : folders[s][i].id = folderId
    /\ calls' = calls + 1
    /\ selectedTodos' = [selectedTodos EXCEPT ![s] = selected]
    /\ todos' = [todos EXCEPT ![s] = BulkSetFolder(@, selected, folderId)]
    /\ ops' = [ops EXCEPT ![s] =
                 [name |-> "handleBulkMove", pc |-> "update", error |-> FALSE,
                  selected |-> selected, folder_id |-> folderId,
                  todosAtCall |-> todos[s]]]
    /\ settled' = Quiet
    /\ UNCHANGED <<db, folders, todoOrder, fetch, issued, faulted, prefs, edits>>

\* from('todos').update({ folder_id: folderId }).in('id', Array.from(selectedTodos))
BulkMoveExec(s) ==
    /\ ops[s].name = "handleBulkMove" /\ ops[s].pc = "update"
    /\ LET u == SessionUser(s)
           hit == MoveHit(u, ops[s].selected)
           new == {[t EXCEPT !.folder_id = ops[s].folder_id] : t \in hit}
       IN Answer(s, "updated", MoveRejected(u, new),
                 /\ dbTodos' = (dbTodos \ hit) \cup new
                 /\ UNCHANGED dbFolders)
    /\ settled' = Quiet
    /\ UNCHANGED <<local, mount, issued, calls, prefs, edits>>

\* The rollback: { ...todo, folder_id: todo.folder_id } for the selected todos
BulkMoveRollback(current, selected) ==
    [i \in DOMAIN current |->
        IF current[i].id \in selected
        THEN [current[i] EXCEPT !.folder_id = current[i].folder_id]
        ELSE current[i]]

BulkMoveDone(s) ==
    /\ ops[s].name = "handleBulkMove" /\ ops[s].pc = "updated"
    /\ IF ops[s].error
       THEN /\ Settle(s, FALSE, "Failed to move todos", FALSE)
            /\ todos' = [todos EXCEPT ![s] = BulkMoveRollback(@, ops[s].selected)]
            /\ UNCHANGED selectedTodos
       ELSE /\ Settle(s, TRUE, "Todos moved successfully!", FALSE)
            /\ selectedTodos' = [selectedTodos EXCEPT ![s] = {}]
            /\ UNCHANGED todos
    /\ UNCHANGED <<db, folders, todoOrder, fetch, issued, calls, faulted, prefs, edits>>

\* order.indexOf(id), counted from 1; 0 when absent
IndexOf(order, id) ==
    IF Contains(order, id)
    THEN CHOOSE i \in DOMAIN order : order[i] = id /\ \A j \in 1..(i - 1) : order[j] # id
    ELSE 0

\* A comparator that puts the ids absent from the list first
OrderCompareAbsentFirst(order, a, b) ==
    LET indexA == IndexOf(order, a.id)
        indexB == IndexOf(order, b.id)
    IN IF indexA = 0 /\ indexB = 0 THEN 0
       ELSE IF indexA = 0 THEN -1
       ELSE IF indexB = 0 THEN 1
       ELSE indexA - indexB

\* The comparator of filteredTodos: negative, zero or positive
OrderCompare(order, a, b) ==
    LET indexA == IndexOf(order, a.id)
        indexB == IndexOf(order, b.id)
    IN IF indexA = 0 /\ indexB = 0 THEN 0
       ELSE IF indexA = 0 THEN 1
       ELSE IF indexB = 0 THEN -1
       ELSE indexA - indexB

\* Array.prototype.sort with that comparator (a stable sort)
RECURSIVE SortByOrder(_, _)
SortByOrder(seq, order) ==
    IF seq = <<>> THEN <<>>
    ELSE LET front == SortByOrder(SubSeq(seq, 1, Len(seq) - 1), order)
             x == seq[Len(seq)]
             before == {i \in DOMAIN front : OrderCompare(order, front[i], x) <= 0}
             k == IF before = {} THEN 0
                  ELSE CHOOSE i \in before : \A j \in before : j <= i
         IN SubSeq(front, 1, k) \o <<x>> \o SubSeq(front, k + 1, Len(front))

\* folder_id || 'root'
ScopeOf(folderId) == IF folderId = Null THEN "root" ELSE folderId

\* TodoList.filteredTodos for the selected folder (null: All Todos) and filter
FilteredTodos(current, order, selectedFolderId, filter) ==
    LET InFolder(t) == selectedFolderId = Null \/ t.folder_id = selectedFolderId
        InFilter(t) == CASE filter = "active" -> ~t.is_complete
                         [] filter = "completed" -> t.is_complete
                         [] OTHER -> TRUE
    IN SortByOrder(SelectSeq(SelectSeq(current, InFolder), InFilter),
                   order[ScopeOf(selectedFolderId)])

\* A splice one place further down the list
DropOrderBelowTarget(currentTodos, dragged, target) ==
    LET targetIndex == CHOOSE i \in DOMAIN currentTodos : currentTodos[i].id = target.id
        NotDragged(t) == t.id # dragged.id
        rest == SelectSeq(currentTodos, NotDragged)
        at == IF targetIndex > Len(rest) THEN Len(rest) ELSE targetIndex
        newTodos == SubSeq(rest, 1, at) \o <<dragged>> \o SubSeq(rest, at + 1, Len(rest))
        InScope(t) == ScopeOf(t.folder_id) = ScopeOf(target.folder_id)
        kept == SelectSeq(newTodos, InScope)
    IN [i \in DOMAIN kept |-> kept[i].id]

\* newTodos.splice(targetIndex, 0, dragged) on currentTodos without the
\* dragged todo, then the ids of the target's scope
DropOrder(currentTodos, dragged, target) ==
    LET targetIndex == CHOOSE i \in DOMAIN currentTodos : currentTodos[i].id = target.id
        NotDragged(t) == t.id # dragged.id
        rest == SelectSeq(currentTodos, NotDragged)
        at == IF targetIndex - 1 > Len(rest) THEN Len(rest) ELSE targetIndex - 1
        newTodos == SubSeq(rest, 1, at) \o <<dragged>> \o SubSeq(rest, at + 1, Len(rest))
        InScope(t) == ScopeOf(t.folder_id) = ScopeOf(target.folder_id)
        kept == SelectSeq(newTodos, InScope)
    IN [i \in DOMAIN kept |-> kept[i].id]

\* Object.keys(todoOrder).length > 0
HasKeys(order) == \E k \in DOMAIN order : order[k] # <<>>

\* A debounce whose timer keeps running when the function is called again
ArmedKeepsTimer(sv, order) ==
    [sv EXCEPT !.timer = IF @ >= 0 THEN @ ELSE DebounceDelay, !.args = order, !.elapsed = 0]

\* saveTodoOrder(order): the debounced function keeps its latest arguments
\* and restarts its timer
Armed(sv, order) == [sv EXCEPT !.timer = DebounceDelay, !.args = order, !.elapsed = 0]

\* The effect on [todoOrder]: saveTodoOrder(todoOrder) for a map with keys
SaveEffect(s, order) ==
    IF HasKeys(order)
    THEN saver' = [saver EXCEPT ![s] = Armed(@, order)]
    ELSE UNCHANGED saver

\* A todo of the visible list is dropped onto another one. Within one folder
\* the handler has no await and settles at once; across folders the update of
\* the dragged todo's folder_id is issued first.
DropCall(s, selectedFolderId, filter, dragged, target) ==
    /\ CanCall(s)
    /\ selectedFolderId = Null
          \/ \E i \in DOMAIN folders[s] : folders[s][i].id = selectedFolderId
    /\ LET currentTodos == FilteredTodos(todos[s], todoOrder[s], selectedFolderId, filter)
       IN /\ Contains(currentTodos, dragged)
          /\ Contains(currentTodos, target)
          /\ dragged.id # target.id
          /\ calls' = calls + 1
          /\ IF dragged.folder_id # target.folder_id
             THEN /\ ops' = [ops EXCEPT ![s] =
                              [name |-> "handleDrop", pc |-> "update", error |-> FALSE,
                               currentTodos |-> currentTodos,
                               dragged |-> dragged, target |-> target]]
                  /\ settled' = Quiet
                  /\ UNCHANGED <<todoOrder, saver>>
             ELSE /\ todoOrder' = [todoOrder EXCEPT
                        ![s][ScopeOf(target.folder_id)] =
                            DropOrder(currentTodos, dragged, target)]
                  /\ SaveEffect(s, todoOrder'[s])
                  /\ settled' = [name |-> "handleDrop", sess |-> s,
                                 op |-> [name |-> "handleDrop", pc |-> "sync",
                                         error |-> FALSE, currentTodos |-> currentTodos,
                                         dragged |-> dragged, target |-> target],
                                 ok |-> TRUE, toast |-> "Todo moved successfully!",
                                 thrown |-> FALSE, closed |-> DialogCloses(FALSE)]
                  /\ UNCHANGED ops
    /\ UNCHANGED <<db, folders, todos, selectedTodos, fetch, issued, faulted, dbPrefs, edits>>

\* from('todos').update({ folder_id: targetTodo.folder_id }).eq('id', draggedTodo.id)
DropExec(s) ==
    /\ ops[s].name = "handleDrop" /\ ops[s].pc = "update"
    /\ LET u == SessionUser(s)
           hit == MoveHit(u, {ops[s].dragged.id})
           new == {[t EXCEPT !.folder_id = ops[s].target.folder_id] : t \in hit}
       IN Answer(s, "updated", MoveRejected(u, new),
                 /\ dbTodos' = (dbTodos \ hit) \cup new
                 /\ UNCHANGED dbFolders)
    /\ settled' = Quiet
    /\ UNCHANGED <<local, mount, issued, calls, prefs, edits>>

\* if (error) throw error; draggedTodo.folder_id = targetTodo.folder_id writes
\* into the object the list holds; then the new order of the target's scope
DropDone(s) ==
    /\ ops[s].name = "handleDrop" /\ ops[s].pc = "updated"
    /\ IF ops[s].error
       THEN /\ Settle(s, FALSE, "Failed to move todo", FALSE)
            /\ UNCHANGED <<todos, todoOrder, saver>>
       ELSE LET moved == [ops[s].dragged EXCEPT !.folder_id = ops[s].target.folder_id]
            IN /\ Settle(s, TRUE, "Todo moved successfully!", FALSE)
               /\ todos' = [todos EXCEPT ![s] =
                    [i \in DOMAIN @ |-> IF @[i] = ops[s].dragged THEN moved ELSE @[i]]]
               /\ todoOrder' = [todoOrder EXCEPT
                    ![s][ScopeOf(ops[s].target.folder_id)] =
                        DropOrder(ops[s].currentTodos, moved, ops[s].target)]
               /\ SaveEffect(s, todoOrder'[s])
    /\ UNCHANGED <<db, folders, selectedTodos, fetch, issued, calls, faulted, dbPrefs, edits>>

----------------------------------------------------------------------------
\* useTodos.toggleTodo

\* current.map(t => t.id === todo.id ? { ...t, is_complete: !t.is_complete } : t)
ToggleLocal(current, todo) ==
    [i \in DOMAIN current |->
        IF current[i].id = todo.id
        THEN [current[i] EXCEPT !.is_complete = ~current[i].is_complete]
        ELSE current[i]]

\* The checkbox of a listed todo: the optimistic flip, then the update is issued
ToggleTodoCall(s, todo) ==
    /\ CanCall(s)
    /\ Contains(todos[s], todo)
    /\ calls' = calls + 1
    /\ todos' = [todos EXCEPT ![s] = ToggleLocal(@, todo)]
    /\ ops' = [ops EXCEPT ![s] =
                 [name |-> "toggleTodo", pc |-> "update", error |-> FALSE,
                  todo |-> todo, todosAtCall |-> todos[s]]]
    /\ settled' = Quiet
    /\ UNCHANGED <<db, folders, selectedTodos, todoOrder, fetch, issued, faulted, prefs, edits>>

\* from('todos').update({ is_complete: !todo.is_complete }).eq('id', todo.id)
ToggleTodoExec(s) ==
    /\ ops[s].name = "toggleTodo" /\ ops[s].pc = "update"
    /\ LET u == SessionUser(s)
           hit == MoveHit(u, {ops[s].todo.id})
           new == {[t EXCEPT !.is_complete = ~ops[s].todo.is_complete] : t \in hit}
       IN Answer(s, "updated", MoveRejected(u, new),
                 /\ dbTodos' = (dbTodos \ hit) \cup new
                 /\ UNCHANGED dbFolders)
    /\ settled' = Quiet
    /\ UNCHANGED <<local, mount, issued, calls, prefs, edits>>

\* A rollback that leaves the optimistic value in place
ToggleTodoKeepsOptimistic(current, todo) == current

\* The rollback: current.map(t => t.id === todo.id ? { ...t, is_complete: todo.is_complete } : t)
ToggleTodoRollback(current, todo) ==
    [i \in DOMAIN current |->
        IF current[i].id = todo.id
        THEN [current[i] EXCEPT !.is_complete = todo.is_complete]
        ELSE current[i]]

\* if (error) { rollback; throw error } ... catch: toast.error; success shows no toast
ToggleTodoDone(s) ==
    /\ ops[s].name = "toggleTodo" /\ ops[s].pc = "updated"
    /\ IF ops[s].error
       THEN /\ Settle(s, FALSE, "Failed to update todo", FALSE)
            /\ todos' = [todos EXCEPT ![s] = ToggleTodoRollback(@, ops[s].todo)]
       ELSE /\ Settle(s, TRUE, "", FALSE)
            /\ UNCHANGED todos
    /\ UNCHANGED <<db, folders, selectedTodos, todoOrder, fetch, issued, calls, faulted, prefs, edits>>

----------------------------------------------------------------------------
\* useTodos.deleteTodo

\* DELETE on todos: "Users can manage their own todos" only
TodoDeletable(u, t) == u = t.user_id

\* The delete button of a listed todo passes its id
DeleteTodoCall(s, id) ==
    /\ CanCall(s)
    /\ \E i \in DOMAIN todos[s] : todos[s][i].id = id
    /\ calls' = calls + 1
    /\ ops' = [ops EXCEPT ![s] =
                 [name |-> "deleteTodo", pc |-> "delete", error |-> FALSE,
                  id |-> id, todosAtCall |-> todos[s]]]
    /\ settled' = Quiet
    /\ UNCHANGED <<db, local, fetch, issued, faulted, prefs, edits>>

\* from('todos').delete().eq('id', id): rows the policies hide are skipped
DeleteTodoExec(s) ==
    /\ ops[s].name = "deleteTodo" /\ ops[s].pc = "delete"
    /\ LET hit == {t \in dbTodos : t.id = ops[s].id /\ TodoDeletable(SessionUser(s), t)}
       IN Answer(s, "deleted", FALSE,
                 /\ dbTodos' = dbTodos \ hit
                 /\ UNCHANGED dbFolders)
    /\ settled' = Quiet
    /\ UNCHANGED <<local, mount, issued, calls, prefs, edits>>

\* A deleteTodo that removes the todo from the list whatever the backend answers
DeleteTodoDoneRemovesAnyway(s) ==
    /\ ops[s].name = "deleteTodo" /\ ops[s].pc = "deleted"
    /\ IF ops[s].error
       THEN Settle(s, FALSE, "Failed to delete todo", FALSE)
       ELSE Settle(s, TRUE, "Todo deleted successfully!", FALSE)
    /\ todos' = [todos EXCEPT ![s] = RemoveById(@, ops[s].id)]
    /\ UNCHANGED <<db, folders, selectedTodos, todoOrder, fetch, issued, calls, faulted, prefs, edits>>

\* if (error) throw error; setTodos(current => current.filter(todo => todo.id !== id))
DeleteTodoDone(s) ==
    /\ ops[s].name = "deleteTodo" /\ ops[s].pc = "deleted"
    /\ IF ops[s].error
       THEN /\ Settle(s, FALSE, "Failed to delete todo", FALSE)
            /\ UNCHANGED todos
       ELSE /\ Settle(s, TRUE, "Todo deleted successfully!", FALSE)
            /\ todos' = [todos EXCEPT ![s] = RemoveById(@, ops[s].id)]
    /\ UNCHANGED <<db, folders, selectedTodos, todoOrder, fetch, issued, calls, faulted, prefs, edits>>

----------------------------------------------------------------------------
\* useBulkActions.handleBulkDelete

\* The todos ticked in the list, then the bar's delete button
BulkDeleteCall(s, selected) ==
    /\ CanCall(s)
    /\ selected # {}
    /\ selected \subseteq {todos[s][i].id : i \in DOMAIN todos[s]}
    /\ calls' = calls + 1
    /\ selectedTodos' = [selectedTodos EXCEPT ![s] = selected]
    /\ ops' = [ops EXCEPT ![s] =
                 [name |-> "handleBulkDelete", pc |-> "delete", error |-> FALSE,
                  selected |-> selected, todosAtCall |-> todos[s]]]
    /\ settled' = Quiet
    /\ UNCHANGED <<db, folders, todos, todoOrder, fetch, issued, faulted, prefs, edits>>

\* from('todos').delete().in('id', Array.from(selectedTodos))
BulkDeleteExec(s) ==
    /\ ops[s].name = "handleBulkDelete" /\ ops[s].pc = "delete"
    /\ LET hit == {t \in dbTodos : t.id \in ops[s].selected
                                   /\ TodoDeletable(SessionUser(s), t)}
       IN Answer(s, "deleted", FALSE,
                 /\ dbTodos' = dbTodos \ hit
                 /\ UNCHANGED dbFolders)
    /\ settled' = Quiet
    /\ UNCHANGED <<local, mount, issued, calls, prefs, edits>>

\* if (error) throw error; toast.success; setSelectedTodos(new Set()):
\* the handler has no setTodos call
BulkDeleteDone(s) ==
    /\ ops[s].name = "handleBulkDelete" /\ ops[s].pc = "deleted"
    /\ IF ops[s].error
       THEN /\ Settle(s, FALSE, "Failed to delete todos", FALSE)
            /\ UNCHANGED selectedTodos
       ELSE /\ Settle(s, TRUE, "Todos deleted successfully!", FALSE)
            /\ selectedTodos' = [selectedTodos EXCEPT ![s] = {}]
    /\ UNCHANGED <<db, folders, todos, todoOrder, fetch, issued, calls, faulted, prefs, edits>>

----------------------------------------------------------------------------
\* useBulkActions.handleBulkToggleComplete

\* BulkActionsBar: onToggleComplete(!selected.every(id => todos.find(t => t.id === id)?.is_complete))
BarComplete(current, selected) ==
    ~ \A id \in selected :
          \E i \in DOMAIN current : current[i].id = id /\ current[i].is_complete

\* current.map(todo => selectedTodos.has(todo.id) ? { ...todo, is_complete: complete } : todo)
BulkSetComplete(current, selected, complete) ==
    [i \in DOMAIN current |->
        IF current[i].id \in selected
        THEN [current[i] EXCEPT !.is_complete = complete]
        ELSE current[i]]

\* The todos ticked in the list, then the bar's complete button
BulkToggleCall(s, selected) ==
    /\ CanCall(s)
    /\ selected # {}
    /\ selected \subseteq {todos[s][i].id : i \in DOMAIN todos[s]}
    /\ calls' = calls + 1
    /\ selectedTodos' = [selectedTodos EXCEPT ![s] = selected]
    /\ todos' = [todos EXCEPT ![s] =
                   BulkSetComplete(@, selected, BarComplete(todos[s], selected))]
    /\ ops' = [ops EXCEPT ![s] =
                 [name |-> "handleBulkToggleComplete", pc |-> "update", error |-> FALSE,
                  selected |-> selected, complete |-> BarComplete(todos[s], selected),
                  todosAtCall |-> todos[s]]]
    /\ settled' = Quiet
    /\ UNCHANGED <<db, folders, todoOrder, fetch, issued, faulted, prefs, edits>>

\* from('todos').update({ is_complete: complete }).in('id', Array.from(selectedTodos))
BulkToggleExec(s) ==
    /\ ops[s].name = "handleBulkToggleComplete" /\ ops[s].pc = "update"
    /\ LET u == SessionUser(s)
           hit == MoveHit(u, ops[s].selected)
           new == {[t EXCEPT !.is_complete = ops[s].complete] : t \in hit}
       IN Answer(s, "updated", MoveRejected(u, new),
                 /\ dbTodos' = (dbTodos \ hit) \cup new
                 /\ UNCHANGED dbFolders)
    /\ settled' = Quiet
    /\ UNCHANGED <<local, mount, issued, calls, prefs, edits>>

\* The rollback: { ...todo, is_complete: !complete } for the selected todos
BulkToggleRollback(current, selected, complete) ==
    [i \in DOMAIN current |->
        IF current[i].id \in selected
        THEN [current[i] EXCEPT !.is_complete = ~complete]
        ELSE current[i]]

BulkToggleDone(s) ==
    /\ ops[s].name = "handleBulkToggleComplete" /\ ops[s].pc = "updated"
    /\ IF ops[s].error
       THEN /\ Settle(s, FALSE, "Failed to update todos", FALSE)
            /\ todos' = [todos EXCEPT ![s] =
                           BulkToggleRollback(@, ops[s].selected, ops[s].complete)]
            /\ UNCHANGED selectedTodos
       ELSE /\ Settle(s, TRUE, "Todos updated successfully!", FALSE)
            /\ selectedTodos' = [selectedTodos EXCEPT ![s] = {}]
            /\ UNCHANGED todos
    /\ UNCHANGED <<db, folders, todoOrder, fetch, issued, calls, faulted, prefs, edits>>

----------------------------------------------------------------------------
\* The postgres_changes callbacks of useTodos and useFolders

\* A DELETE event carries no new row: payload.new is {} (its id is undefined)
EmptyTodo ==
    [id |-> "undefined", user_id |-> "undefined", folder_id |-> Null,
     title |-> "undefined", is_complete |-> FALSE,
     shared_with |-> <<>>, can_edit |-> <<>>]

EmptyFolder ==
    [id |-> "undefined", user_id |-> "undefined",
     shared_with |-> <<>>, can_edit |-> <<>>]

\* exists ? current.map(x => x.id === payload.new.id ? payload.new : x)
\*        : [...current, payload.new]
MergePayload(current, new) ==
    IF \E i \in DOMAIN current : current[i].id = new.id
    THEN [i \in DOMAIN current |-> IF current[i].id = new.id THEN new ELSE current[i]]
    ELSE Append(current, new)

\* if (payload.new) { setX(current => merge) }: for a DELETE event the client
\* library decides whether payload.new is missing or an empty object
OnPayload(current, e, empty) ==
    IF e.eventType # "DELETE"
    THEN {MergePayload(current, e.new)}
    ELSE {current, MergePayload(current, empty)}

\* useTodos: .on('postgres_changes', { event: '*', table: 'todos' }, callback)
RealtimeTodos(s) ==
    /\ feed[s].queue # <<>>
    /\ Head(feed[s].queue).table = "todos"
    /\ feed' = [feed EXCEPT ![s].queue = Tail(@)]
    /\ \E merged \in OnPayload(todos[s], Head(feed[s].queue), EmptyTodo) :
          todos' = [todos EXCEPT ![s] = merged]
    /\ settled' = Quiet
    /\ UNCHANGED <<db, folders, selectedTodos, todoOrder, ops, mount, issued, calls, faulted, prefs, edits>>

\* useFolders: .on('postgres_changes', { event: '*', table: 'todo_folders' }, callback)
RealtimeFolders(s) ==
    /\ feed[s].queue # <<>>
    /\ Head(feed[s].queue).table = "todo_folders"
    /\ feed' = [feed EXCEPT ![s].queue = Tail(@)]
    /\ \E merged \in OnPayload(folders[s], Head(feed[s].queue), EmptyFolder) :
          folders' = [folders EXCEPT ![s] = merged]
    /\ settled' = Quiet
    /\ UNCHANGED <<db, todos, selectedTodos, todoOrder, ops, mount, issued, calls, faulted, prefs, edits>>

\* The todo rows a session lists
LocalTodos(s) == ToSet(todos[s])

TodoIds == ToSet(TodoIdSeq)

FolderChoices == ToSet(FolderIdSeq) \cup {Null}

----------------------------------------------------------------------------
Next ==
    \E s \in Sessions :
        \/ Mount(s)
        \/ FetchFoldersOwned(s)
        \/ FetchFoldersShared(s)
        \/ FetchTodosOwned(s)
        \/ FetchTodosShared(s)
        \/ CreateFolderCall(s)
        \/ CreateFolderExec(s)
        \/ CreateFolderDone(s)
        \/ \E folder \in ToSet(folders[s]), userId \in Users, permission \in Permissions :
              ShareFolderCall(s, folder, userId, permission)
        \/ ShareFolderExecFolder(s)
        \/ ShareFolderAfterFolder(s)
        \/ ShareFolderExecTodos(s)
        \/ ShareFolderDone(s)
        \/ \E folder \in ToSet(folders[s]) : DeleteFolderCall(s, folder)
        \/ DeleteFolderExecDetach(s)
        \/ DeleteFolderAfterDetach(s)
        \/ DeleteFolderExecDelete(s)
        \/ DeleteFolderDone(s)
        \/ \E folderId \in FolderChoices : AddTodoCall(s, folderId)
        \/ AddTodoReadFolder(s)
        \/ AddTodoExecInsert(s)
        \/ AddTodoDone(s)
        \/ \E todo \in LocalTodos(s), title \in Titles, folderId \in FolderChoices :
              UpdateTodoCall(s, todo, title, folderId)
        \/ UpdateTodoExec(s)
        \/ UpdateTodoDone(s)
        \/ \E selected \in SUBSET TodoIds, folderId \in FolderChoices :
              BulkMoveCall(s, selected, folderId)
        \/ BulkMoveExec(s)
        \/ BulkMoveDone(s)
        \/ \E selectedFolderId \in FolderChoices, dragged \in LocalTodos(s),
              target \in LocalTodos(s) :
              DropCall(s, selectedFolderId, "active", dragged, target)
        \/ DropExec(s)
        \/ DropDone(s)

Spec == Init /\ [][Next]_vars

----------------------------------------------------------------------------
\* The todo handlers with the tables in the realtime publication: two
\* sessions whose initial fetch has completed, their channels delivering the
\* changes of the two tables

\* The rows the first user has created before: a folder shared for edit with
\* the second user, and one todo, added to that folder (and so stamped with
\* its sharing) when there is one
SeedFolder == [id |-> FolderIdSeq[1], user_id |-> "u1",
               shared_with |-> <<"u2">>, can_edit |-> <<"u2">>]

SeedTodo(withFolder, done) ==
    [id |-> TodoIdSeq[1], user_id |-> "u1",
     folder_id |-> IF withFolder THEN FolderIdSeq[1] ELSE Null,
     title |-> "a", is_complete |-> done,
     shared_with |-> IF withFolder THEN <<"u2">> ELSE <<>>,
     can_edit |-> IF withFolder THEN <<"u2">> ELSE <<>>]

\* The session whose controls are used; the other session watches
Editors == {"s1"}

\* Both sessions have completed their initial fetch: each lists the rows its
\* user can select
InitTodos ==
    \E withFolder \in BOOLEAN, done \in BOOLEAN :
        /\ dbFolders = IF withFolder THEN {SeedFolder} ELSE {}
        /\ dbTodos = {SeedTodo(withFolder, done)}
        /\ folders = [s \in Sessions |-> IF withFolder THEN <<SeedFolder>> ELSE <<>>]
        /\ todos = [s \in Sessions |->
                       IF s \in Editors \/ withFolder
                       THEN <<SeedTodo(withFolder, done)>> ELSE <<>>]
        /\ selectedTodos = [s \in Sessions |-> {}]
        /\ todoOrder = [s \in Sessions |-> [k \in ScopeKeys |-> <<>>]]
        /\ ops = [s \in Sessions |-> Idle]
        /\ fetchF = [s \in Sessions |-> [pc |-> "idle"]]
        /\ fetchT = [s \in Sessions |-> [pc |-> "idle"]]
        /\ loading = [s \in Sessions |-> "false"]
        /\ feed = [s \in Sessions |-> [joined |-> TRUE, queue |-> <<>>]]
        /\ issued = [folder |-> IF withFolder THEN 1 ELSE 0, todo |-> 1]
        /\ calls = MaxCalls - MaxTodoCalls
        /\ dbPrefs = [u \in Users |-> NoPrefs]
        /\ saver = [s \in Sessions |-> IdleSaver]
        /\ editing = [s \in Sessions |-> NoRow]
        /\ writes = [s \in Sessions |-> <<>>]
        /\ faulted = FALSE
        /\ settled = Quiet

\* The rows of the list that carry an id: the controls of a rendered todo
ListedTodos(s) == {t \in ToSet(todos[s]) : t.id \in TodoIds}

NextTodos ==
    \E s \in Sessions :
        \/ RealtimeTodos(s)
        \/ RealtimeFolders(s)
        \/ s \in Editors /\ CreateFolderCall(s)
        \/ CreateFolderExec(s)
        \/ CreateFolderDone(s)
        \/ \E folderId \in FolderChoices : s \in Editors /\ AddTodoCall(s, folderId)
        \/ AddTodoReadFolder(s)
        \/ AddTodoExecInsert(s)
        \/ AddTodoDone(s)
        \/ \E todo \in ListedTodos(s), title \in Titles, folderId \in FolderChoices :
              s \in Editors /\ UpdateTodoCall(s, todo, title, folderId)
        \/ UpdateTodoExec(s)
        \/ UpdateTodoDone(s)
        \/ \E selected \in SUBSET TodoIds, folderId \in FolderChoices :
              s \in Editors /\ BulkMoveCall(s, selected, folderId)
        \/ BulkMoveExec(s)
        \/ BulkMoveDone(s)
        \/ \E todo \in ListedTodos(s) : s \in Editors /\ ToggleTodoCall(s, todo)
        \/ ToggleTodoExec(s)
        \/ ToggleTodoDone(s)
        \/ \E id \in TodoIds : s \in Editors /\ DeleteTodoCall(s, id)
        \/ DeleteTodoExec(s)
        \/ DeleteTodoDone(s)
        \/ \E selected \in SUBSET TodoIds : s \in Editors /\ BulkDeleteCall(s, selected)
        \/ BulkDeleteExec(s)
        \/ BulkDeleteDone(s)
        \/ \E selected \in SUBSET TodoIds : s \in Editors /\ BulkToggleCall(s, selected)
        \/ BulkToggleExec(s)
        \/ BulkToggleDone(s)

TodoSpec == InitTodos /\ [][NextTodos]_vars

----------------------------------------------------------------------------
\* Properties

\* The handler that has just settled
Succeeded(name) == settled.name = name /\ settled.ok
Failed(name) == settled.name = name /\ ~settled.ok

\* The backend row of a folder id, as a set (empty when there is none)
FolderRow(id) == {f \in dbFolders : f.id = id}
Members(id) == {t \in dbTodos : t.folder_id = id}

\* C1: when shareFolder(F, U, perm) has completed successfully, every backend
\* todo with folder_id = F.id has U in shared_with and, for edit or manage,
\* U in can_edit.
C1_ShareReachesEveryMember ==
    Succeeded("shareFolder") =>
        \A t \in Members(settled.op.folder.id) :
            /\ Contains(t.shared_with, settled.op.userId)
            /\ settled.op.permission \in {"edit", "manage"}
                  => Contains(t.can_edit, settled.op.userId)

\* C2: when shareFolder(F, U, perm) has completed successfully, for every
\* permission level, every backend todo with folder_id = F.id has shared_with
\* and can_edit equal to those of F's backend row.
C2_CascadeOverwritesBoth ==
    Succeeded("shareFolder") =>
        \A f \in FolderRow(settled.op.folder.id) :
            \A t \in Members(f.id) :
                /\ ToSet(t.shared_with) = ToSet(f.shared_with)
                /\ ToSet(t.can_edit) = ToSet(f.can_edit)

\* C3: when deleteFolder(F) has completed successfully, no backend todo has
\* folder_id = F.id, and F is in neither the backend folder table nor the
\* calling session's folder collection.
C3_DeletedFolderIsGone ==
    Succeeded("deleteFolder") =>
        /\ Members(settled.op.folder.id) = {}
        /\ FolderRow(settled.op.folder.id) = {}
        /\ \A i \in DOMAIN folders[settled.sess] :
              folders[settled.sess][i].id # settled.op.folder.id

\* A step of the handler that session s has in flight
HandlerStep(s, name) == ops[s].name = name /\ ops'[s] # ops[s]

\* The handler of session s settles in this step as a failure with the toast
FailsWith(s, name, toast) ==
    /\ ops'[s] = Idle
    /\ settled'.name = name /\ settled'.sess = s
    /\ ~settled'.ok /\ settled'.toast = toast

\* C4: within deleteFolder(F) the folder delete is issued only after the
\* folder_id-clearing write has succeeded; if the clearing write fails no
\* delete is issued and the folder stays, locally and in the backend; if the
\* delete fails after the clear, the folder stays locally and in the backend
\* and the todos stay detached; both failures show the failure toast.
C4_DetachBeforeDelete ==
    [][\A s \in Sessions : HandlerStep(s, "deleteFolder") =>
          /\ ops'[s].name = "deleteFolder" /\ ops'[s].pc = "delete"
                => ops[s].pc = "detached" /\ ~ops[s].error
          /\ dbFolders' # dbFolders => ops[s].pc = "delete" /\ ~ops'[s].error
          /\ ops'[s].name = "deleteFolder" => folders' = folders
          /\ ops[s].pc = "detached" /\ ops[s].error
                => /\ FailsWith(s, "deleteFolder", "Failed to delete folder")
                   /\ UNCHANGED <<folders, dbFolders, dbTodos>>
          /\ ops[s].pc = "deleted" /\ ops[s].error
                => /\ FailsWith(s, "deleteFolder", "Failed to delete folder")
                   /\ UNCHANGED <<folders, dbFolders, dbTodos>>
      ]_vars

\* The delete failed after the clear had detached a todo: the folder is still
\* listed and stored, the todo is at the root level
C4_Witness ==
    /\ Failed("deleteFolder") /\ settled.op.pc = "deleted"
    /\ settled.op.detached # {}
    /\ FolderRow(settled.op.folder.id) # {}
    /\ Contains(folders[settled.sess], settled.op.folder)
    /\ \A t \in dbTodos : t.id \in settled.op.detached => t.folder_id = Null

C6_DetachKeepsOtherFields ==
    [][\A s \in Sessions : HandlerStep(s, "deleteFolder") =>
          /\ {t.id : t \in dbTodos'} = {t.id : t \in dbTodos}
          /\ \A t \in dbTodos : \E n \in dbTodos' :
                n = [t EXCEPT !.folder_id = n.folder_id]
      ]_vars

\* The clearing write has detached a todo that is shared: the todo is at the
\* root level and still carries its shared_with
C6_Witness ==
    \E s \in Sessions :
        /\ ops[s].name = "deleteFolder" /\ ops[s].pc = "detached" /\ ~ops[s].error
        /\ \E t \in dbTodos : /\ t.id \in ops[s].detached
                               /\ t.folder_id = Null
                               /\ t.shared_with # <<>>

\* An array holds no element twice
NoDuplicates(seq) == \A i, j \in DOMAIN seq : seq[i] = seq[j] => i = j

\* C7: a shareFolder(F, U, 'view') that is passed the folder as an earlier
\* shareFolder(F, U, 'view') left it (U already in shared_with, the backend
\* row equal to the folder passed) changes neither F's backend row nor, where
\* the local entry already lists U, the local folder collection; no step of
\* shareFolder leaves a duplicate in shared_with or can_edit of a folder.
C7_ViewShareIdempotent ==
    [][\A s \in Sessions : HandlerStep(s, "shareFolder") =>
          /\ ( /\ ops[s].permission = "view"
               /\ Contains(ops[s].folder.shared_with, ops[s].userId)
               /\ FolderRow(ops[s].folder.id) \subseteq {ops[s].folder} )
                => dbFolders' = dbFolders
          /\ ( /\ ops[s].permission = "view"
               /\ \A i \in DOMAIN folders[s] :
                      (folders[s][i].id = ops[s].folder.id
                         => Contains(folders[s][i].shared_with, ops[s].userId)) )
                => folders' = folders
          /\ \A f \in dbFolders' \ dbFolders :
                NoDuplicates(f.shared_with) /\ NoDuplicates(f.can_edit)
          /\ \A i \in DOMAIN folders'[s] :
                NoDuplicates(folders'[s][i].shared_with)
                   /\ NoDuplicates(folders'[s][i].can_edit)
      ]_vars

\* The second view share of F with U has completed: the folder it was passed
\* listed U already, and backend row and local entry are that folder still
C7_Witness ==
    /\ Succeeded("shareFolder") /\ settled.op.permission = "view"
    /\ Contains(settled.op.folder.shared_with, settled.op.userId)
    /\ FolderRow(settled.op.folder.id) = {settled.op.folder}
    /\ Contains(folders[settled.sess], settled.op.folder)

\* C8: a shareFolder in which a backend write has failed leaves the local
\* folder collection as it was, shows the toast 'Failed to share folder' and
\* re-throws, so the dialog that awaited it does not close; before its
\* success the handler does not touch the local collection at all.
C8_ShareFailureLeavesLocal ==
    [][\A s \in Sessions : HandlerStep(s, "shareFolder") =>
          /\ ops[s].pc \in {"folderUpdated", "todosUpdated"} /\ ops[s].error
                => /\ FailsWith(s, "shareFolder", "Failed to share folder")
                   /\ settled'.thrown /\ ~settled'.closed
                   /\ folders' = folders
          /\ ops'[s].name = "shareFolder" => folders' = folders
      ]_vars

\* The cascade write failed after the folder write had been applied: the
\* session's collection still holds the folder as it was passed
C8_Witness ==
    /\ Failed("shareFolder") /\ settled.op.pc = "todosUpdated"
    /\ settled.thrown /\ ~settled.closed
    /\ Contains(folders[settled.sess], settled.op.folder)
    /\ ~Contains(settled.op.folder.shared_with, settled.op.userId)
    /\ \E f \in FolderRow(settled.op.folder.id) :
          Contains(f.shared_with, settled.op.userId)

\* C9: the insert of addTodo stores one new row owned by the caller; for a
\* folder_id F its shared_with and can_edit are those of the folder row the
\* handler read, which was F's backend row at the moment of the read; with
\* no folder_id nothing is read and both are empty (as they are when the
\* read of F returned no row).
C9_AddTodoStampsFolderSharing ==
    [][\A s \in Sessions : HandlerStep(s, "addTodo") =>
          /\ ops[s].pc = "read" /\ ops'[s].readRow.id # "none"
                => /\ ops'[s].readRow \in dbFolders
                   /\ ops'[s].readRow.id = ops[s].folder_id
          /\ ops[s].pc = "insert" /\ ~ops'[s].error
                => \E t \in dbTodos' :
                     /\ dbTodos' = dbTodos \cup {t} /\ t \notin dbTodos
                     /\ t.id = ops[s].id /\ t.user_id = SessionUser(s)
                     /\ t.folder_id = ops[s].folder_id
                     /\ (ops[s].readRow.id # "none"
                           => /\ t.shared_with = ops[s].readRow.shared_with
                              /\ t.can_edit = ops[s].readRow.can_edit)
                     /\ (ops[s].readRow.id = "none"
                           => t.shared_with = <<>> /\ t.can_edit = <<>>)
                     /\ (ops[s].folder_id = Null => ops[s].readRow.id = "none")
      ]_vars

\* A todo has been added to a folder shared with edit permission and carries
\* the folder's two arrays
C9_Witness ==
    /\ Succeeded("addTodo") /\ settled.op.readRow.id # "none"
    /\ settled.op.readRow.can_edit # <<>>
    /\ \E t \in dbTodos : /\ t.id = settled.op.id
                           /\ t.folder_id = settled.op.readRow.id
                           /\ t.shared_with = settled.op.readRow.shared_with
                           /\ t.can_edit = settled.op.readRow.can_edit

\* No handler and no fetch is in flight
Quiescent ==
    \A s \in Sessions :
        ops[s].name = "idle" /\ fetchF[s].pc = "idle" /\ fetchT[s].pc = "idle"

\* C10: in every backend state with no operation in flight, every todo T
\* with folder_id = F has T.shared_with \supseteq F.shared_with and
\* T.can_edit \supseteq F.can_edit.
C10_MembersInheritFolderSharing ==
    Quiescent =>
        \A f \in dbFolders : \A t \in Members(f.id) :
            /\ ToSet(f.shared_with) \subseteq ToSet(t.shared_with)
            /\ ToSet(f.can_edit) \subseteq ToSet(t.can_edit)

\* C11: in every reachable backend state, every folder row and every todo
\* row has its can_edit list contained in its shared_with list
C11_CanEditWithinSharedWith ==
    \A r \in dbFolders \cup dbTodos : ToSet(r.can_edit) \subseteq ToSet(r.shared_with)

\* The is_complete values the entries of a todo have in a local collection
CompleteOf(current, id) ==
    {current[i].is_complete : i \in {j \in DOMAIN current : current[j].id = id}}

\* C12: when the write of toggleTodo(T) fails, the backend is left as it
\* was, and the handler settles with T's local is_complete at the value it
\* had when the handler was invoked, with the failure notification, and ends
\* there: no further request is issued
C12_ToggleRollback ==
    [][\A s \in Sessions :
          /\ (HandlerStep(s, "toggleTodo") /\ ops'[s].name = "toggleTodo" /\ ops'[s].error)
                => UNCHANGED db
          /\ (HandlerStep(s, "toggleTodo") /\ ops[s].error)
                => /\ CompleteOf(todos'[s], ops[s].todo.id)
                        = CompleteOf(ops[s].todosAtCall, ops[s].todo.id)
                   /\ UNCHANGED db
                   /\ settled'.name = "toggleTodo" /\ ~settled'.ok
                   /\ settled'.toast = "Failed to update todo"
                   /\ ops'[s] = Idle]_vars

\* A toggle whose write failed has settled and the todo shows the value it
\* had before the click
C12_Witness ==
    /\ settled.name = "toggleTodo" /\ ~settled.ok
    /\ CompleteOf(todos[settled.sess], settled.op.todo.id)
          = {settled.op.todo.is_complete}
    /\ CompleteOf(settled.op.todosAtCall, settled.op.todo.id)
          = {settled.op.todo.is_complete}

\* The entries a todo has in a local collection
EntriesOf(current, id) ==
    {current[i] : i \in {j \in DOMAIN current : current[j].id = id}}

\* C13: when the write of updateTodo fails, the handler settles with the
\* local entry of the todo carrying the title and the folder_id it had when
\* the handler was invoked, and with the failure notification
C13_UpdateRollback ==
    [][\A s \in Sessions :
          (HandlerStep(s, "updateTodo") /\ ops[s].error)
             => /\ {<<t.title, t.folder_id>> : t \in EntriesOf(todos'[s], ops[s].todo.id)}
                     = {<<t.title, t.folder_id>> :
                           t \in EntriesOf(ops[s].todosAtCall, ops[s].todo.id)}
                /\ settled'.toast = "Failed to update todo"]_vars

\* C14: when the write of handleBulkMove fails, the handler settles with
\* every selected todo in the folder it was in when the handler was invoked,
\* the other todos as they were before the settling step, and with the
\* failure notification
C14_BulkMoveRollback ==
    [][\A s \in Sessions :
          (HandlerStep(s, "handleBulkMove") /\ ops[s].error)
             => /\ \A id \in ops[s].selected :
                      {t.folder_id : t \in EntriesOf(todos'[s], id)}
                         = {t.folder_id : t \in EntriesOf(ops[s].todosAtCall, id)}
                /\ \A id \in TodoIds \ ops[s].selected :
                      EntriesOf(todos'[s], id) = EntriesOf(todos[s], id)
                /\ settled'.toast = "Failed to move todos"]_vars

\* C15: when the write of handleBulkToggleComplete fails, the handler
\* settles with every selected todo at the is_complete value it had when the
\* handler was invoked, and with the failure notification
C15_BulkToggleRollback ==
    [][\A s \in Sessions :
          (HandlerStep(s, "handleBulkToggleComplete") /\ ops[s].error)
             => /\ \A id \in ops[s].selected :
                      CompleteOf(todos'[s], id) = CompleteOf(ops[s].todosAtCall, id)
                /\ settled'.toast = "Failed to update todos"]_vars

\* C16: deleteTodo(id) leaves the local todos as they are when it is invoked
\* and when the backend answers; on a failure it settles with the local
\* todos unchanged and the failure notification; on a success it settles
\* with the entries of that id removed and the other entries unchanged in
\* content and in order
C16_DeleteNotOptimistic ==
    [][\A s \in Sessions :
          /\ (ops'[s].name = "deleteTodo" /\ ops'[s] # ops[s])
                => todos'[s] = todos[s]
          /\ (HandlerStep(s, "deleteTodo") /\ ops'[s] = Idle /\ ops[s].error)
                => /\ todos'[s] = todos[s]
                   /\ ~settled'.ok /\ settled'.toast = "Failed to delete todo"
          /\ (HandlerStep(s, "deleteTodo") /\ ops'[s] = Idle /\ ~ops[s].error)
                => /\ EntriesOf(todos'[s], ops[s].id) = {}
                   /\ LET Other(t) == t.id # ops[s].id
                      IN todos'[s] = SelectSeq(todos[s], Other)
                   /\ settled'.ok]_vars

\* A successful deleteTodo has settled: the todo is gone from the list and
\* another todo is still listed
C16_Witness ==
    /\ settled.name = "deleteTodo" /\ settled.ok
    /\ EntriesOf(settled.op.todosAtCall, settled.op.id) # {}
    /\ EntriesOf(todos[settled.sess], settled.op.id) = {}
    /\ todos[settled.sess] # <<>>

\* C17: a successful handleBulkDelete settles with none of the selected ids
\* left in the local todos; a failed one settles with the local todos and the
\* selection unchanged
C17_BulkDeleteRemovesSelected ==
    [][\A s \in Sessions :
          /\ (HandlerStep(s, "handleBulkDelete") /\ ops'[s] = Idle /\ ~ops[s].error)
                => \A id \in ops[s].selected : EntriesOf(todos'[s], id) = {}
          /\ (HandlerStep(s, "handleBulkDelete") /\ ops'[s] = Idle /\ ops[s].error)
                => /\ todos'[s] = todos[s]
                   /\ selectedTodos'[s] = selectedTodos[s]]_vars

\* The channel callback of a session handles the event at the head of its feed
Delivered(s) == feed[s].queue # <<>> /\ feed'[s].queue = Tail(feed[s].queue)

\* The collection a table's events are merged into
Collection(table, ts, fs) == IF table = "todos" THEN ts ELSE fs

\* C18: when the channel callback handles a DELETE event for id X, the
\* collection of that table afterwards has no entry with id X, and every
\* entry it has was there before
C18_DeleteEventRemoves ==
    [][\A s \in Sessions :
          (Delivered(s) /\ Head(feed[s].queue).eventType = "DELETE")
             => LET e == Head(feed[s].queue)
                    before == Collection(e.table, todos[s], folders[s])
                    after == Collection(e.table, todos'[s], folders'[s])
                IN /\ EntriesOf(after, e.old) = {}
                   /\ ToSet(after) \subseteq ToSet(before)]_vars

\* The ids of the entries of a local collection, in order
IdsOf(current) == [i \in DOMAIN current |-> current[i].id]

\* C20: in every reachable state, each session's local todos and local
\* folders hold at most one entry per id
C20_NoDuplicateIds ==
    \A s \in Sessions : NoDuplicates(IdsOf(todos[s])) /\ NoDuplicates(IdsOf(folders[s]))

\* C19: when the channel callback handles an INSERT or UPDATE event for id
\* X, handling the same event once more gives the collection the first
\* handling gave: exactly one entry with id X, equal to the event's row, in
\* the place X had before (at the end when X was not listed), every other
\* entry as before
C19_MergeIdempotent ==
    [][\A s \in Sessions :
          (Delivered(s) /\ Head(feed[s].queue).eventType # "DELETE")
             => LET e == Head(feed[s].queue)
                    before == Collection(e.table, todos[s], folders[s])
                    once == Collection(e.table, todos'[s], folders'[s])
                    twice == MergePayload(once, e.new)
                IN /\ twice = once
                   /\ Cardinality({i \in DOMAIN twice : twice[i].id = e.new.id}) = 1
                   /\ EntriesOf(twice, e.new.id) = {e.new}
                   /\ IF EntriesOf(before, e.new.id) # {}
                      THEN /\ Len(twice) = Len(before)
                           /\ \A i \in DOMAIN before :
                                 before[i].id # e.new.id => twice[i] = before[i]
                      ELSE twice = Append(before, e.new)]_vars

----------------------------------------------------------------------------
\* The list view and handleDrop over the order maps and lists a session can
\* hold: the map comes from the stored preferences and from earlier drops,
\* the todos from earlier sessions

\* The todos the list holds
SortIdSeq == <<"t1", "t2", "t3", "t4">>

\* Lists of distinct ids, at most n long
OrderLists(n) ==
    {q \in UNION {[1..k -> ToSet(SortIdSeq)] : k \in 0..n} : NoDuplicates(q)}

\* Length of the order list of a folder scope
MaxFolderOrderLen == 1

SortFolder == [id |-> FolderIdSeq[1], user_id |-> "u1",
               shared_with |-> <<>>, can_edit |-> <<>>]

SortTodo(id, folderId) ==
    [id |-> id, user_id |-> "u1", folder_id |-> folderId, title |-> "a",
     is_complete |-> FALSE, shared_with |-> <<>>, can_edit |-> <<>>]

InitSort ==
    \E place \in [DOMAIN SortIdSeq -> FolderChoices],
       rootOrder \in OrderLists(Len(SortIdSeq)),
       folderOrder \in OrderLists(MaxFolderOrderLen) :
       LET rows == [i \in DOMAIN SortIdSeq |-> SortTodo(SortIdSeq[i], place[i])]
       IN /\ dbFolders = {SortFolder}
          /\ dbTodos = ToSet(rows)
          /\ folders = [s \in Sessions |-> IF s \in Editors THEN <<SortFolder>> ELSE <<>>]
          /\ todos = [s \in Sessions |-> IF s \in Editors THEN rows ELSE <<>>]
          /\ selectedTodos = [s \in Sessions |-> {}]
          /\ todoOrder = [s \in Sessions |->
                            IF s \in Editors
                            THEN [k \in ScopeKeys |->
                                    IF k = "root" THEN rootOrder ELSE folderOrder]
                            ELSE [k \in ScopeKeys |-> <<>>]]
          /\ ops = [s \in Sessions |-> Idle]
          /\ fetchF = [s \in Sessions |-> [pc |-> "idle"]]
          /\ fetchT = [s \in Sessions |-> [pc |-> "idle"]]
          /\ loading = [s \in Sessions |-> IF s \in Editors THEN "false" ELSE "unmounted"]
          /\ feed = [s \in Sessions |-> [joined |-> FALSE, queue |-> <<>>]]
          /\ issued = [folder |-> 1, todo |-> 0]
          /\ calls = MaxCalls - 1
          /\ dbPrefs = [u \in Users |-> NoPrefs]
          /\ saver = [s \in Sessions |-> IdleSaver]
          /\ editing = [s \in Sessions |-> NoRow]
          /\ writes = [s \in Sessions |-> <<>>]
          /\ faulted = FALSE
          /\ settled = Quiet

NextSort ==
    \E s \in Sessions :
        \/ \E selectedFolderId \in FolderChoices, dragged \in LocalTodos(s),
              target \in LocalTodos(s) :
              DropCall(s, selectedFolderId, "active", dragged, target)
        \/ DropExec(s)
        \/ DropDone(s)

SortSpec == InitSort /\ [][NextSort]_vars

\* The todos of a view before they are sorted: the two filters of the page
Visible(current, selectedFolderId) ==
    LET Shown(t) == /\ selectedFolderId = Null \/ t.folder_id = selectedFolderId
                    /\ ~t.is_complete
    IN SelectSeq(current, Shown)

\* a comes before b in seq
Precedes(seq, a, b) == \E m, n \in DOMAIN seq : m < n /\ seq[m] = a /\ seq[n] = b

\* out is input sorted against list: a permutation of input, the todos whose
\* id is in list first and in list order, the others after them in their
\* input order
IsOrderApplication(out, input, list) ==
    /\ \A t \in ToSet(input) \cup ToSet(out) :
          Cardinality({k \in DOMAIN out : out[k] = t})
             = Cardinality({k \in DOMAIN input : input[k] = t})
    /\ \A i, j \in DOMAIN out :
          i < j =>
             LET a == out[i]
                 b == out[j]
             IN /\ (Contains(list, a.id) /\ Contains(list, b.id))
                      => Precedes(list, a.id, b.id)
                /\ ~(~Contains(list, a.id) /\ Contains(list, b.id))
                /\ (~Contains(list, a.id) /\ ~Contains(list, b.id))
                      => Precedes(input, a, b)

\* The list handleDrop has captured in the step that invokes it
Captured(s) ==
    IF ops'[s].name = "handleDrop" THEN ops'[s].currentTodos
    ELSE settled'.op.currentTodos

\* handleDrop is invoked in session s
DropInvoked(s) ==
    /\ ops[s].name = "idle" /\ calls' = calls + 1
    /\ \/ ops'[s].name = "handleDrop"
       \/ settled'.name = "handleDrop" /\ settled'.sess = s

\* C21: the visible list a drop works on is the view's todos sorted against
\* the order list of the view's scope: a permutation of them, the todos in
\* the list first and in list order, the todos absent from the list after
\* them in their original relative order
C21_OrderApplication ==
    [][\A s \in Sessions :
          DropInvoked(s) =>
             \E selectedFolderId \in FolderChoices :
                IsOrderApplication(Captured(s), Visible(todos[s], selectedFolderId),
                                   todoOrder[s][ScopeOf(selectedFolderId)])]_vars

\* A drop works on a list of four todos in which the order list has moved
\* two todos in front of two absent ones and has exchanged the two
C21_Witness ==
    \E s \in Sessions :
       /\ ops[s].name = "handleDrop"
       /\ LET out == ops[s].currentTodos
              list == todoOrder[s]["root"]
          IN /\ Len(out) = 4 /\ Len(list) = 2
             /\ out[1].id = list[1] /\ out[2].id = list[2]
             /\ Precedes(todos[s], out[2], out[1])
             /\ Precedes(todos[s], out[3], out[2])
             /\ Precedes(todos[s], out[3], out[4])

----------------------------------------------------------------------------
\* useTodoOrder: loading the stored order, and the debounced upsert

\* loadPreferences answers: select('preferences').eq('user_id', user.id).single();
\* an error ends it; a stored todoOrder replaces the map, and the effect on
\* [todoOrder] runs
LoadPreferences(s) ==
    /\ saver[s].load = "pending"
    /\ \E error \in BOOLEAN :
         /\ ReadFails(error)
         /\ LET doc == dbPrefs[SessionUser(s)]
            IN IF ~error /\ "todoOrder" \in DOMAIN doc
               THEN /\ todoOrder' = [todoOrder EXCEPT ![s] = doc.todoOrder]
                    /\ saver' = [saver EXCEPT ![s] =
                         [(IF HasKeys(doc.todoOrder) THEN Armed(@, doc.todoOrder) ELSE @)
                            EXCEPT !.load = "done"]]
               ELSE /\ saver' = [saver EXCEPT ![s].load = "done"]
                    /\ UNCHANGED todoOrder
    /\ settled' = Quiet
    /\ UNCHANGED <<db, folders, todos, selectedTodos, ops, fetch, issued, calls,
                   dbPrefs, edits>>

\* The clock advances while the debounce timer of a session runs
Tick(s) ==
    /\ saver[s].timer > 0
    /\ saver' = [saver EXCEPT ![s].timer = @ - 1,
                              ![s].elapsed = IF @ < DebounceDelay THEN @ + 1 ELSE @]
    /\ settled' = Quiet
    /\ UNCHANGED <<db, local, ops, fetch, issued, calls, dbPrefs, edits, faulted>>

\* The timer expires: the debounced function runs with its latest arguments
\* and issues upsert({ user_id, preferences: { todoOrder: newOrder } })
Fire(s) ==
    /\ saver[s].timer = 0
    /\ saver' = [saver EXCEPT ![s].timer = -1,
                              ![s].inflight = Append(@, saver[s].args),
                              ![s].sent = @ + 1]
    /\ settled' = Quiet
    /\ UNCHANGED <<db, local, ops, fetch, issued, calls, dbPrefs, edits, faulted>>

\* seq without its i-th element
RemoveAt(seq, i) == SubSeq(seq, 1, i - 1) \o SubSeq(seq, i + 1, Len(seq))

\* The row an upsert leaves: the preferences column is replaced by the
\* document sent
UpsertedDoc(doc, newOrder) == [todoOrder |-> newOrder]

\* The backend executes one of the upserts in flight; an error is logged only
UpsertExec(s) ==
    /\ \E i \in DOMAIN saver[s].inflight :
         /\ saver' = [saver EXCEPT ![s].inflight = RemoveAt(@, i)]
         /\ \/ /\ dbPrefs' = [dbPrefs EXCEPT ![SessionUser(s)] =
                                 UpsertedDoc(@, saver[s].inflight[i])]
               /\ UNCHANGED faulted
            \/ /\ ~faulted
               /\ faulted' = TRUE
               /\ UNCHANGED dbPrefs
    /\ settled' = Quiet
    /\ UNCHANGED <<db, local, ops, fetch, issued, calls, edits>>

\* Three todos of one user, two at the root and one in a folder; the stored
\* preferences of the user are empty or hold another key, with or without an
\* order saved earlier; loadPreferences has not answered yet
StoredOrders ==
    {[k \in ScopeKeys |-> IF k = "root" THEN <<SortIdSeq[2], SortIdSeq[1]>> ELSE <<>>]}

StoredDocs ==
    {NoPrefs, [theme |-> "dark"]}
       \cup {[theme |-> "dark", todoOrder |-> m] : m \in StoredOrders}

InitSave ==
    \E doc \in StoredDocs :
       LET rows == <<SortTodo(SortIdSeq[1], Null), SortTodo(SortIdSeq[2], Null),
                     SortTodo(SortIdSeq[3], FolderIdSeq[1])>>
       IN /\ dbFolders = {SortFolder}
          /\ dbTodos = ToSet(rows)
          /\ folders = [s \in Sessions |-> IF s \in Editors THEN <<SortFolder>> ELSE <<>>]
          /\ todos = [s \in Sessions |-> IF s \in Editors THEN rows ELSE <<>>]
          /\ selectedTodos = [s \in Sessions |-> {}]
          /\ todoOrder = [s \in Sessions |-> [k \in ScopeKeys |-> <<>>]]
          /\ ops = [s \in Sessions |-> Idle]
          /\ fetchF = [s \in Sessions |-> [pc |-> "idle"]]
          /\ fetchT = [s \in Sessions |-> [pc |-> "idle"]]
          /\ loading = [s \in Sessions |-> IF s \in Editors THEN "false" ELSE "unmounted"]
          /\ feed = [s \in Sessions |-> [joined |-> FALSE, queue |-> <<>>]]
          /\ issued = [folder |-> 1, todo |-> 0]
          /\ calls = MaxCalls - MaxDrops
          /\ dbPrefs = [u \in Users |-> IF u = "u1" THEN doc ELSE NoPrefs]
          /\ saver = [s \in Sessions |->
                        IF s \in Editors THEN [IdleSaver EXCEPT !.load = "pending"]
                        ELSE IdleSaver]
          /\ editing = [s \in Sessions |-> NoRow]
          /\ writes = [s \in Sessions |-> <<>>]
          /\ faulted = FALSE
          /\ settled = Quiet

NextSave ==
    \E s \in Sessions :
        \/ LoadPreferences(s)
        \/ Tick(s)
        \/ Fire(s)
        \/ UpsertExec(s)
        \/ \E selectedFolderId \in FolderChoices, dragged \in LocalTodos(s),
              target \in LocalTodos(s) :
              DropCall(s, selectedFolderId, "active", dragged, target)
        \/ DropExec(s)
        \/ DropDone(s)

SaveSpec == InitSave /\ [][NextSave]_vars

\* The clock keeps running and an expired timer runs its function
SaveLive == SaveSpec /\ \A s \in Sessions : WF_vars(Tick(s)) /\ WF_vars(Fire(s))

\* C22: a burst of changes of the order map, each closer than the debounce
\* delay to the one before, produces exactly one upsert: no upsert is issued
\* by a change, a change restarts the delay, an upsert is issued only when the
\* whole delay has passed since the last change, it carries the in-memory map
\* as of that change, it leaves nothing pending, and a pending save is
\* eventually issued.
C22_BurstCoalesced ==
    /\ [][\A s \in Sessions :
            /\ (saver'[s].sent # saver[s].sent) =>
                  /\ saver'[s].sent = saver[s].sent + 1
                  /\ saver[s].elapsed = DebounceDelay
                  /\ saver'[s].inflight = Append(saver[s].inflight, todoOrder[s])
                  /\ saver'[s].timer = -1
            /\ (todoOrder'[s] # todoOrder[s]) =>
                  /\ saver'[s].sent = saver[s].sent
                  /\ saver'[s].timer = DebounceDelay
                  /\ saver'[s].elapsed = 0
                  /\ saver'[s].args = todoOrder'[s]]_vars
    /\ (\E s \in Sessions : saver[s].timer >= 0) ~> (\A s \in Sessions : saver[s].timer = -1)

\* Two drops in different scopes, with nothing stored before, were saved by
\* one upsert that carries both lists
C22_Witness ==
    \E s \in Sessions :
       /\ calls = MaxCalls
       /\ "todoOrder" \notin DOMAIN dbPrefs[SessionUser(s)]
       /\ saver[s].sent = 1
       /\ Len(saver[s].inflight) = 1
       /\ \A k \in ScopeKeys : saver[s].inflight[1][k] # <<>>
       /\ saver[s].inflight[1] = todoOrder[s]

\* C23: the upsert of the order map preserves every other key of the stored
\* preference document: a key other than todoOrder present before the upsert
\* is present with the same value after it.
C23_UpsertPreservesOtherKeys ==
    [][\A u \in Users :
          (dbPrefs'[u] # dbPrefs[u]) =>
             \A k \in DOMAIN dbPrefs[u] \ {"todoOrder"} :
                k \in DOMAIN dbPrefs'[u] /\ dbPrefs'[u][k] = dbPrefs[u][k]]_vars

\* The handleDrop that settles in this step, with the operation's record
DropSettled(s) == settled'.name = "handleDrop" /\ settled'.sess = s

\* The ids of the captured list that belong to the target's scope once the
\* dragged todo has joined it, in the order they had before the drop
ScopeBefore(op) ==
    LET Member(t) == \/ t.id = op.dragged.id
                     \/ ScopeOf(t.folder_id) = ScopeOf(op.target.folder_id)
        kept == SelectSeq(op.currentTodos, Member)
    IN [i \in DOMAIN kept |-> kept[i].id]

\* C29: a drop of a visible todo onto another visible todo stores, for the
\* target's scope, a list holding each visible todo id of that scope exactly
\* once with the dragged id at the position the target had among them before
\* the drop, and leaves the entries of the other scopes unchanged; a drop
\* whose cross-folder write fails leaves the whole order map unchanged and
\* notifies the failure.
C29_DropOrder ==
    [][\A s \in Sessions :
          DropSettled(s) =>
             LET op == settled'.op
                 scope == ScopeOf(op.target.folder_id)
                 before == ScopeBefore(op)
                 list == todoOrder'[s][scope]
             IN IF settled'.ok
                THEN /\ NoDuplicates(list)
                     /\ ToSet(list) = ToSet(before)
                     /\ \A i \in DOMAIN before :
                           (before[i] = op.target.id) => list[i] = op.dragged.id
                     /\ \A k \in ScopeKeys \ {scope} : todoOrder'[s][k] = todoOrder[s][k]
                ELSE /\ todoOrder'[s] = todoOrder[s]
                     /\ settled'.toast = "Failed to move todo"]_vars

\* A drop across folders has succeeded, onto a target further down the list,
\* and the target's scope now lists three todos
C29_Witness ==
    /\ settled.name = "handleDrop"
    /\ settled.ok
    /\ settled.op.dragged.folder_id # settled.op.target.folder_id
    /\ LET scope == ScopeOf(settled.op.target.folder_id)
           before == ScopeBefore(settled.op)
       IN /\ Len(todoOrder[settled.sess][scope]) = 3
          /\ Precedes(before, settled.op.dragged.id, settled.op.target.id)
          /\ todoOrder[settled.sess][scope] # before

\* The position of the todo with this id in a list of todos, 0 when absent
PlaceOf(list, id) ==
    IF \E i \in DOMAIN list : list[i].id = id
    THEN CHOOSE i \in DOMAIN list : list[i].id = id
    ELSE 0

\* C30: after a successful drop in a view, sorting the view's todos again with
\* the updated order map shows the dragged todo at the place where it was
\* dropped, the place the target had in the list the drop was made on.
C30_ReorderRoundTrip ==
    [][\A s \in Sessions :
          (DropSettled(s) /\ settled'.ok) =>
             \A selectedFolderId \in FolderChoices :
                LET op == settled'.op
                    shown == FilteredTodos(todos[s], todoOrder[s], selectedFolderId, "active")
                    again == FilteredTodos(todos'[s], todoOrder'[s], selectedFolderId, "active")
                IN (shown = op.currentTodos) =>
                      PlaceOf(again, op.dragged.id) = PlaceOf(shown, op.target.id)]_vars

----------------------------------------------------------------------------
\* The edit dialog and overlapping toggles

\* onEdit={setEditingTodo}: the dialog opens on the todo object of the list
\* and keeps it until it closes
OpenEdit(s, todo) ==
    /\ loading[s] = "false"
    /\ editing[s] = NoRow
    /\ Contains(todos[s], todo)
    /\ editing' = [editing EXCEPT ![s] = todo]
    /\ settled' = Quiet
    /\ UNCHANGED <<db, local, ops, fetch, issued, calls, prefs, writes, faulted>>

\* handleSubmit: onSave({ ...todo, title, description, folder_id, ... }) for
\* the todo object the dialog was opened with
EditSave(s, title, folderId) ==
    /\ editing[s] # NoRow
    /\ UpdateTodoStart(s, editing[s], title, folderId)

\* The Cancel button: onClose()
CloseEdit(s) ==
    /\ editing[s] # NoRow
    /\ ops[s].name = "idle"
    /\ editing' = [editing EXCEPT ![s] = NoRow]
    /\ settled' = Quiet
    /\ UNCHANGED <<db, local, ops, fetch, issued, calls, prefs, writes, faulted>>

\* toggleTodo is not serialized: the checkbox of a listed todo can be used
\* while earlier writes are in flight. The optimistic flip, then one more
\* update is issued; the dialog covers the list while it is open
ToggleWriteCall(s, todo) ==
    /\ loading[s] = "false" /\ calls < MaxCalls
    /\ editing[s] = NoRow
    /\ Contains(todos[s], todo)
    /\ calls' = calls + 1
    /\ todos' = [todos EXCEPT ![s] = ToggleLocal(@, todo)]
    /\ writes' = [writes EXCEPT ![s] =
                    Append(@, [name |-> "toggleTodo", pc |-> "update", error |-> FALSE,
                               todo |-> todo])]
    /\ settled' = Quiet
    /\ UNCHANGED <<db, folders, selectedTodos, todoOrder, ops, fetch, issued, faulted,
                   prefs, editing>>

\* The backend answers one of the updates in flight, in any order
ToggleWriteExec(s) ==
    /\ \E i \in DOMAIN writes[s] :
         LET w == writes[s][i]
             u == SessionUser(s)
             hit == MoveHit(u, {w.todo.id})
             new == {[t EXCEPT !.is_complete = ~w.todo.is_complete] : t \in hit}
             rejected == MoveRejected(u, new)
         IN /\ w.pc = "update"
            /\ \/ /\ ~rejected
                  /\ dbTodos' = (dbTodos \ hit) \cup new
                  /\ UNCHANGED dbFolders
                  /\ Publish
                  /\ writes' = [writes EXCEPT ![s][i].pc = "updated"]
                  /\ UNCHANGED faulted
               \/ /\ rejected \/ ~faulted
                  /\ faulted' = (faulted \/ ~rejected)
                  /\ writes' = [writes EXCEPT ![s][i].pc = "updated", ![s][i].error = TRUE]
                  /\ UNCHANGED <<db, feed>>
    /\ settled' = Quiet
    /\ UNCHANGED <<local, ops, fetchF, fetchT, loading, issued, calls, prefs, editing>>

\* One of the answered calls resumes: the rollback to the captured value on
\* an error, nothing on success
ToggleWriteDone(s) ==
    /\ \E i \in DOMAIN writes[s] :
         LET w == writes[s][i]
         IN /\ w.pc = "updated"
            /\ writes' = [writes EXCEPT ![s] = RemoveAt(@, i)]
            /\ IF w.error
               THEN todos' = [todos EXCEPT ![s] = ToggleTodoRollback(@, w.todo)]
               ELSE UNCHANGED todos
            /\ settled' = [name |-> "toggleTodo", sess |-> s, op |-> w,
                           ok |-> ~w.error,
                           toast |-> IF w.error THEN "Failed to update todo" ELSE "",
                           thrown |-> FALSE, closed |-> DialogCloses(FALSE)]
    /\ UNCHANGED <<db, folders, selectedTodos, todoOrder, ops, fetch, issued, calls,
                   faulted, prefs, editing>>

\* The seeded todo, alone or in the shared folder, is listed by the sessions
\* whose user can select it; the realtime channels are joined or not
InitEdit ==
    \E withFolder \in BOOLEAN, done \in BOOLEAN, realtime \in BOOLEAN :
        /\ dbFolders = IF withFolder THEN {SeedFolder} ELSE {}
        /\ dbTodos = {SeedTodo(withFolder, done)}
        /\ folders = [s \in Sessions |-> IF withFolder THEN <<SeedFolder>> ELSE <<>>]
        /\ todos = [s \in Sessions |->
                       IF s \in Editors \/ withFolder
                       THEN <<SeedTodo(withFolder, done)>> ELSE <<>>]
        /\ selectedTodos = [s \in Sessions |-> {}]
        /\ todoOrder = [s \in Sessions |-> [k \in ScopeKeys |-> <<>>]]
        /\ ops = [s \in Sessions |-> Idle]
        /\ fetchF = [s \in Sessions |-> [pc |-> "idle"]]
        /\ fetchT = [s \in Sessions |-> [pc |-> "idle"]]
        /\ loading = [s \in Sessions |-> "false"]
        /\ feed = [s \in Sessions |-> [joined |-> realtime, queue |-> <<>>]]
        /\ issued = [folder |-> IF withFolder THEN 1 ELSE 0, todo |-> 1]
        /\ calls = MaxCalls - MaxTodoCalls
        /\ dbPrefs = [u \in Users |-> NoPrefs]
        /\ saver = [s \in Sessions |-> IdleSaver]
        /\ editing = [s \in Sessions |-> NoRow]
        /\ writes = [s \in Sessions |-> <<>>]
        /\ faulted = FALSE
        /\ settled = Quiet

NextEdit ==
    \E s \in Sessions :
        \/ RealtimeTodos(s)
        \/ \E todo \in ListedTodos(s) : s \in Editors /\ OpenEdit(s, todo)
        \/ \E title \in Titles, folderId \in FolderChoices :
              s \in Editors /\ EditSave(s, title, folderId)
        \/ UpdateTodoExec(s)
        \/ UpdateTodoDone(s)
        \/ CloseEdit(s)
        \/ \E todo \in ListedTodos(s) : ToggleWriteCall(s, todo)
        \/ ToggleWriteExec(s)
        \/ ToggleWriteDone(s)

EditSpec == InitEdit /\ [][NextEdit]_vars

\* C24: updateTodo changes only title, description and folder_id of the local
\* entry: when it has succeeded and the entry is as the call left it, its
\* is_complete, shared_with and can_edit are those the local store held
\* immediately before the call, also when the dialog's todo is older.
C24_UpdateKeepsOtherFields ==
    [][\A s \in Sessions :
          (settled'.name = "updateTodo" /\ settled'.sess = s /\ settled'.ok) =>
             LET op == settled'.op
             IN \A i \in DOMAIN op.todosAtCall, j \in DOMAIN todos'[s] :
                   (/\ op.todosAtCall[i].id = op.todo.id
                    /\ todos'[s][j] = op.todo) =>
                      /\ todos'[s][j].is_complete = op.todosAtCall[i].is_complete
                      /\ todos'[s][j].shared_with = op.todosAtCall[i].shared_with
                      /\ todos'[s][j].can_edit = op.todosAtCall[i].can_edit]_vars

\* One session uses the checkbox of the seeded todo, with no realtime channel
\* joined
InitToggles == InitEdit /\ \A s \in Sessions : ~feed[s].joined

NextToggles ==
    \E s \in Editors :
        \/ \E todo \in ListedTodos(s) : ToggleWriteCall(s, todo)
        \/ ToggleWriteExec(s)
        \/ ToggleWriteDone(s)

ToggleSpec == InitToggles /\ [][NextToggles]_vars

\* All writes issued by toggleTodo have resolved
WritesResolved == \A s \in Sessions : writes[s] = <<>>

\* C25: with no realtime event delivered, once every write issued by the
\* toggleTodo calls on a todo has resolved, in whatever order and with
\* whatever outcomes, the local is_complete of the todo equals the backend's.
C25_ToggleConvergence ==
    WritesResolved =>
       \A s \in Editors : \A i \in DOMAIN todos[s] : \A row \in dbTodos :
          (row.id = todos[s][i].id) => todos[s][i].is_complete = row.is_complete

----------------------------------------------------------------------------
\* Sharing a folder from a list that is behind the backend

\* The share dialog is used by either session, one call at a time: a call
\* starts when no other call is in flight. The events of the other
\* session's calls arrive when they arrive
NextShare ==
    \E s \in Sessions :
        \/ RealtimeTodos(s)
        \/ RealtimeFolders(s)
        \/ \E folder \in ToSet(folders[s]), userId \in Users, permission \in Permissions :
              /\ \A r \in Sessions : ops[r].name = "idle"
              /\ ShareFolderCall(s, folder, userId, permission)
        \/ ShareFolderExecFolder(s)
        \/ ShareFolderAfterFolder(s)
        \/ ShareFolderExecTodos(s)
        \/ ShareFolderDone(s)

ShareSpec == InitTodos /\ [][NextShare]_vars

\* The update of shareFolder on todo_folders takes effect in this step
ShareWrites(s) ==
    /\ ops[s].name = "shareFolder" /\ ops[s].pc = "folderUpdate"
    /\ ops'[s].pc = "folderUpdated" /\ ~ops'[s].error

\* C26: sharing never revokes. No call overlaps another one here, so the
\* backend row at the start of a call is the row its update finds: every
\* user in the row's shared_with (can_edit) is still in it after the update,
\* also when the folder object of the call is older than the row; and when
\* the call has succeeded the local entry's sets are the backend's.
C26_ShareNeverRevokes ==
    [][\A s \in Sessions :
          /\ ShareWrites(s) =>
                \A f \in dbFolders, g \in dbFolders' :
                   (f.id = ops[s].folder.id /\ g.id = f.id) =>
                      /\ ToSet(f.shared_with) \subseteq ToSet(g.shared_with)
                      /\ ToSet(f.can_edit) \subseteq ToSet(g.can_edit)
          /\ (settled'.name = "shareFolder" /\ settled'.sess = s /\ settled'.ok) =>
                \A i \in DOMAIN folders'[s], g \in dbFolders' :
                   (g.id = settled'.op.folder.id /\ folders'[s][i].id = g.id) =>
                      /\ ToSet(folders'[s][i].shared_with) = ToSet(g.shared_with)
                      /\ ToSet(folders'[s][i].can_edit) = ToSet(g.can_edit)]_vars

----------------------------------------------------------------------------
\* Opening the page while another session changes a todo

\* A todo of u2 that u1 may edit
MountTodo(done) ==
    [id |-> TodoIdSeq[1], user_id |-> "u2", folder_id |-> Null,
     title |-> "a", is_complete |-> done,
     shared_with |-> <<"u1">>, can_edit |-> <<"u1">>]

\* The session of u1 lists the todo; u2 has not opened the page yet. The
\* subscription of a session is set up by the effect that starts its fetch
InitMount ==
    \E done \in BOOLEAN :
        /\ dbFolders = {}
        /\ dbTodos = {MountTodo(done)}
        /\ folders = [s \in Sessions |-> <<>>]
        /\ todos = [s \in Sessions |-> IF s \in Editors THEN <<MountTodo(done)>> ELSE <<>>]
        /\ selectedTodos = [s \in Sessions |-> {}]
        /\ todoOrder = [s \in Sessions |-> [k \in ScopeKeys |-> <<>>]]
        /\ ops = [s \in Sessions |-> Idle]
        /\ fetchF = [s \in Sessions |-> [pc |-> "idle"]]
        /\ fetchT = [s \in Sessions |-> [pc |-> "idle"]]
        /\ loading = [s \in Sessions |-> IF s \in Editors THEN "false" ELSE "unmounted"]
        /\ feed = [s \in Sessions |-> [joined |-> TRUE, queue |-> <<>>]]
        /\ issued = [folder |-> 0, todo |-> 1]
        /\ calls = MaxCalls - MaxTodoCalls
        /\ dbPrefs = [u \in Users |-> NoPrefs]
        /\ saver = [s \in Sessions |-> IdleSaver]
        /\ editing = [s \in Sessions |-> NoRow]
        /\ writes = [s \in Sessions |-> <<>>]
        /\ faulted = FALSE
        /\ settled = Quiet

NextMount ==
    \E s \in Sessions :
        \/ Mount(s)
        \/ FetchFoldersOwned(s)
        \/ FetchFoldersShared(s)
        \/ FetchTodosOwned(s)
        \/ FetchTodosShared(s)
        \/ RealtimeTodos(s)
        \/ \E todo \in ListedTodos(s) : s \in Editors /\ ToggleTodoCall(s, todo)
        \/ ToggleTodoExec(s)
        \/ ToggleTodoDone(s)

MountSpec == InitMount /\ [][NextMount]_vars

\* The queries of a fetch that was started are answered, and a queued event
\* is delivered
MountLive ==
    MountSpec /\ \A s \in Sessions : /\ WF_vars(FetchTodosOwned(s))
                                     /\ WF_vars(FetchTodosShared(s))
                                     /\ WF_vars(RealtimeTodos(s))

\* The result of fetchTodos replaces the collection of s in this step
FetchApplied(s) == fetchT[s].pc = "shared" /\ loading[s] = "true" /\ loading'[s] = "false"

\* C27: an insert or update event merged before the queries of the initial
\* fetch resolve is not lost: when the entry it left is the backend's current
\* row, the collection still holds that entry after the fetch result has
\* been applied (an older row would not be as recent as the event's).
C27_EventSurvivesFetch ==
    [][\A s \in Sessions :
          FetchApplied(s) =>
             \A i \in DOMAIN todos[s] :
                (todos[s][i] \in dbTodos') => Contains(todos'[s], todos[s][i])]_vars

\* C28: once the initial todo fetch of a session has settled, with both
\* queries answered or one of them failed, the loading flag of useTodos
\* eventually becomes false.
C28_LoadingEnds ==
    \A s \in Sessions :
       (loading[s] # "unmounted" /\ fetchT[s].pc = "idle") ~> (loading[s] = "false")

====
